---- MODULE Spec2Model ----
(***************************************************************************)
(* Model of the Ayiah media ingestion pipeline: the rate limiter           *)
(* (src/src/scraper/rate_limiter.rs), the provider adapters                 *)
(* (src/src/scraper/provider/*.rs), the file scanner                        *)
(* (src/src/services/file_scanner.rs), the metadata agent                   *)
(* (src/src/services/metadata_agent.rs) and the store entities              *)
(* (src/src/entities/*.rs).                                                 *)
(*                                                                         *)
(* Time is discrete.  Instants are kept as ages (ticks elapsed since the    *)
(* instant was taken), so that the clock itself needs no bound.             *)
(***************************************************************************)
EXTENDS Integers, Sequences, FiniteSets, TLC

\* ------------------------------------------------------------------ bounds
MaxConcurrent == 2
MaxRequests == 2
MaxWindow == 2
MaxCalls == 2

\* ------------------------------------------------------------- vocabulary
Adapters == {"tmdb", "tvdb", "anilist", "bangumi"}
\* adapters whose request() goes through ProviderBase::get_with_rate_limit
RateLimitedAdapters == {"tmdb", "bangumi"}
\* the RateLimiter instance and the provider keys used when the limiter's
\* own interface acquire(provider) is exercised directly
DirectLimiter == "tmdb"
DirectKeys == {"tmdb", "bangumi"}
Callers == {"c1", "c2"}
None == -1

VARIABLES
    config,       \* RateLimitConfig shared by every limiter (Default or with_rate_limit)
    semaphore,    \* RateLimiter.semaphore: available permits, per limiter instance
    closed,       \* whether the semaphore of the instance was closed
    records,      \* RateLimiter.records: instance -> provider key -> ages of timestamps
    pc,           \* position of each caller
    lim,          \* the limiter instance (ProviderBase) a caller works on
    key,          \* the provider key passed to acquire
    permit,       \* whether the caller owns an OwnedSemaphorePermit
    sleepLeft,    \* ticks left before the caller's tokio sleep may complete
    calls,        \* number of calls started by the caller
    acquired,     \* history: instance -> key -> ages of the acquisitions granted
    registered,   \* adapters added to the aggregator
    token,        \* TvdbProvider.token
    files,        \* filesystem: the files that exist
    unreadable,   \* filesystem: files whose metadata cannot be read
    dirState,     \* filesystem: what each folder path currently is
    changes,      \* number of outside changes made so far
    dbUp,         \* whether the store answers queries
    libraryFolders, \* table library_folders
    mediaItems,   \* table media_items
    videoMetadata, \* table video_metadata
    scanPc,       \* position of each scan_library_folder execution
    scanFolder,   \* its folder argument
    scanTodo,     \* directory entries the walk has not yielded yet
    scanCur,      \* the entry whose row is being created
    scanResult,   \* its counters total_files, new_items, existing_items, errors
    scanErr,      \* FileScannerError returned, or "none"
    scanClean,    \* history: no store failure and no outside change during the scan
    scanBase,     \* history: the earlier scan this scan repeats without any change
    prevScan,     \* history: last scan of each folder that ended with errors = 0
    now,          \* the store's CURRENT_TIMESTAMP, in seconds
    agPc,         \* position of the metadata agent
    batchItems,   \* batch_fetch_metadata: its argument media_items
    batchIdx,     \* index of the item the loop is at
    batchResults, \* its local results
    agQuery,      \* fetch_and_save_metadata: (title, year) passed to search
    agPick,       \* fetch_and_save_metadata: matching_result
    agSeen,       \* history: what the aggregator's search returned to this call
    apps,         \* history: the applications completed by the running batch
    scraper,      \* AyiahScraper: organize_method, retry_count, skip_existing, dry_run, ..
    fetchUp,      \* whether metadata_provider.fetch_metadata answers
    disk,         \* the filesystem the organizer works on: one entry per path
    denied,       \* whether the filesystem refuses every modifying call
    task,         \* per FileInfo: the execution of process_single_file on it
    runPc,        \* position of run()
    runFiles,     \* run(): files returned by scan_files
    permits,      \* run(): available permits of its semaphore
    progress_rx,  \* run(): ProgressUpdate messages not yet received
    progress,     \* run(): ScrapeProgress accumulated by the progress task
    runResult,    \* run(): the Result returned, if any
    mdTask,       \* scan_folder: the metadata tasks it has spawned
    scanAll,      \* the execution of scan_all_libraries
    call,         \* a function under study: its name and arguments
    ret,          \* what the call returned
    cache,        \* ScraperCache: its configuration, entries and entry count
    cacheHist,    \* history: per key, the last operation that touched it
    countedAs,    \* history: per scan, the paths it counted as new, existing, error
    refused,      \* history: per metadata task, whether the store refused its upsert
    outbound,     \* history: per cache key, the HTTP requests sent for it
    answered      \* history: the cache keys a request was answered for with success

rlVars == <<config, semaphore, closed, records, pc, lim, key, permit, sleepLeft,
            calls, acquired>>
adVars == <<registered, token>>
fsVars == <<files, unreadable, dirState, changes>>
storeVars == <<dbUp, libraryFolders, mediaItems, videoMetadata>>
scanVars == <<scanPc, scanFolder, scanTodo, scanCur, scanResult, scanErr>>
scanHist == <<scanClean, scanBase, prevScan>>
pipeVars == <<fsVars, storeVars, scanVars, scanHist>>
agentVars == <<agPc, batchItems, batchIdx, batchResults, agQuery, agPick, agSeen,
               apps>>
metaVars == <<now, agentVars>>
orgFsVars == <<fetchUp, disk, denied>>
runVars == <<runPc, runFiles, permits, progress_rx, progress, runResult>>
orgVars == <<scraper, orgFsVars, task, runVars>>
reqVars == <<mdTask, scanAll>>
cacheVars == <<cache, cacheHist>>
raceVars == <<countedAs, refused>>
lookupVars == <<outbound, answered>>
auxVars == <<call, ret, cacheVars, raceVars, lookupVars>>
vars == <<config, semaphore, closed, records, pc, lim, key, permit, sleepLeft,
          calls, acquired, registered, token, pipeVars, metaVars, orgVars, reqVars, auxVars>>

Min(a, b) == IF a < b THEN a ELSE b
Max(a, b) == IF a > b THEN a ELSE b

\* --------------------------------------------------------- RequestRecord
\* ages above the window all behave alike; one extra value is kept
AgeCap == config.window_seconds + 1

Aged(ts, d) == [i \in DOMAIN ts |-> Min(ts[i] + d, AgeCap)]

\* a cleanup that never evicts a timestamp
cleanup_keepAll(ts, window) == ts

\* RequestRecord::cleanup: retain(|t| now - t < window)
cleanup(ts, window) == SelectSeq(ts, LAMBDA t : t < window)

\* a can_request that admits one request too many
can_request_offByOne(ts, max_requests) == Len(ts) <= max_requests

\* RequestRecord::can_request
can_request(ts, max_requests) == Len(ts) < max_requests

\* RequestRecord::record_request: push(Instant::now())
record_request(ts) == Append(ts, 0)

\* RequestRecord::next_available
next_available(ts, window, max_requests) ==
    IF Len(ts) < max_requests THEN None
    ELSE IF ts # <<>> /\ ts[1] < window THEN window - ts[1]
    ELSE None

\* number of acquisitions granted for key p on instance l in the last W ticks
InWindow(l, p) ==
    Cardinality({i \in DOMAIN acquired[l][p] :
                    acquired[l][p][i] < config.window_seconds})

\* every instant of the model grows older by d ticks
AgeRecords(recs, d) ==
    [l \in Adapters |-> [p \in Adapters |-> Aged(recs[l][p], d)]]

AgeAcquired(acq, d) ==
    [l \in Adapters |-> [p \in Adapters |->
        SelectSeq(Aged(acq[l][p], d), LAMBDA t : t < config.window_seconds)]]

AgeSleep(sl, d) == [c \in Callers |-> Max(sl[c] - d, 0)]

\* ------------------------------------------------------------ RateLimiter
\* RateLimiter::new for every instance, all callers idle
InitLimiter ==
    /\ config \in [max_concurrent : 1..MaxConcurrent,
                   max_requests : 0..MaxRequests,
                   window_seconds : 0..MaxWindow]
    /\ semaphore = [l \in Adapters |-> config.max_concurrent]
    /\ closed = [l \in Adapters |-> FALSE]
    /\ records = [l \in Adapters |-> [p \in Adapters |-> <<>>]]
    /\ acquired = [l \in Adapters |-> [p \in Adapters |-> <<>>]]
    /\ pc = [c \in Callers |-> "idle"]
    /\ lim = [c \in Callers |-> DirectLimiter]
    /\ key = [c \in Callers |-> DirectLimiter]
    /\ permit = [c \in Callers |-> FALSE]
    /\ sleepLeft = [c \in Callers |-> 0]
    /\ calls = [c \in Callers |-> 0]

\* a caller enters acquire(p) on the limiter instance l
EnterAcquire(c, l, p) ==
    /\ pc[c] = "idle"
    /\ calls[c] < MaxCalls
    /\ pc' = [pc EXCEPT ![c] = "wait_permit"]
    /\ lim' = [lim EXCEPT ![c] = l]
    /\ key' = [key EXCEPT ![c] = p]
    /\ calls' = [calls EXCEPT ![c] = @ + 1]
    /\ UNCHANGED <<config, semaphore, closed, records, permit, sleepLeft, acquired>>

\* an acquire that goes on without waiting for a free permit
TakePermit_noWait(c) ==
    /\ pc[c] = "wait_permit"
    /\ semaphore' = [semaphore EXCEPT ![lim[c]] = Max(@ - 1, 0)]
    /\ permit' = [permit EXCEPT ![c] = TRUE]
    /\ pc' = [pc EXCEPT ![c] = "loop"]
    /\ UNCHANGED <<config, closed, records, lim, key, sleepLeft, calls, acquired>>

\* acquire, lines 87-92: semaphore.acquire_owned().await
TakePermit(c) ==
    /\ pc[c] = "wait_permit"
    /\ IF closed[lim[c]]
       THEN /\ pc' = [pc EXCEPT ![c] = "error"]
            /\ UNCHANGED <<semaphore, permit>>
       ELSE /\ semaphore[lim[c]] > 0
            /\ semaphore' = [semaphore EXCEPT ![lim[c]] = @ - 1]
            /\ permit' = [permit EXCEPT ![c] = TRUE]
            /\ pc' = [pc EXCEPT ![c] = "loop"]
    /\ UNCHANGED <<config, closed, records, lim, key, sleepLeft, calls, acquired>>

\* a pass of the loop that gives the permit back before it sleeps
TryWindow_sleepReleasesPermit(c, d) ==
    /\ pc[c] = "loop"
    /\ LET l == lim[c]
           p == key[c]
           W == config.window_seconds
           R == config.max_requests
           kept == Aged(cleanup(records[l][p], W), d)
           recs == [AgeRecords(records, d) EXCEPT ![l][p] = kept]
           acq == AgeAcquired(acquired, d)
       IN  IF can_request(kept, R)
           THEN /\ records' = [recs EXCEPT ![l][p] = record_request(kept)]
                /\ acquired' = [acq EXCEPT ![l][p] = Append(@, 0)]
                /\ pc' = [pc EXCEPT ![c] = "holding"]
                /\ sleepLeft' = AgeSleep(sleepLeft, d)
                /\ UNCHANGED <<semaphore, permit>>
           ELSE /\ records' = recs
                /\ acquired' = acq
                /\ pc' = [pc EXCEPT ![c] = "sleeping"]
                /\ sleepLeft' = [AgeSleep(sleepLeft, d) EXCEPT ![c] =
                        IF next_available(kept, W, R) = None THEN 0
                        ELSE next_available(kept, W, R)]
                /\ semaphore' = [semaphore EXCEPT ![l] = @ + 1]
                /\ permit' = [permit EXCEPT ![c] = FALSE]
    /\ UNCHANGED <<config, closed, lim, key, calls>>

\* acquire, lines 97-113: one pass of the loop under the record's lock.
\* d is the time that elapses between the Instant::now() of cleanup and the
\* ones of record_request / next_available.
TryWindow(c, d) ==
    /\ pc[c] = "loop"
    /\ LET l == lim[c]
           p == key[c]
           W == config.window_seconds
           R == config.max_requests
           kept == Aged(cleanup(records[l][p], W), d)
           recs == [AgeRecords(records, d) EXCEPT ![l][p] = kept]
           acq == AgeAcquired(acquired, d)
       IN  IF can_request(kept, R)
           THEN /\ records' = [recs EXCEPT ![l][p] = record_request(kept)]
                /\ acquired' = [acq EXCEPT ![l][p] = Append(@, 0)]
                /\ pc' = [pc EXCEPT ![c] = "holding"]
                /\ sleepLeft' = AgeSleep(sleepLeft, d)
           ELSE /\ records' = recs
                /\ acquired' = acq
                /\ pc' = [pc EXCEPT ![c] = "sleeping"]
                \* unwrap_or(100 ms): less than one tick
                /\ sleepLeft' = [AgeSleep(sleepLeft, d) EXCEPT ![c] =
                        IF next_available(kept, W, R) = None THEN 0
                        ELSE next_available(kept, W, R)]
    /\ UNCHANGED <<config, semaphore, closed, lim, key, permit, calls>>

\* acquire, line 120: tokio::time::sleep(wait_duration) completes
Wake(c) ==
    /\ pc[c] = "sleeping"
    /\ sleepLeft[c] = 0
    /\ pc' = [pc EXCEPT ![c] = "loop"]
    /\ UNCHANGED <<config, semaphore, closed, records, lim, key, permit, sleepLeft,
                   calls, acquired>>

\* drop of the RateLimitGuard returns its OwnedSemaphorePermit
DropGuard(c) ==
    /\ pc[c] = "holding"
    /\ permit[c]
    /\ semaphore' = [semaphore EXCEPT ![lim[c]] = @ + 1]
    /\ permit' = [permit EXCEPT ![c] = FALSE]
    /\ pc' = [pc EXCEPT ![c] = "idle"]
    /\ UNCHANGED <<config, closed, records, lim, key, sleepLeft, calls, acquired>>

\* one tick of the monotonic clock
Tick ==
    /\ records' = AgeRecords(records, 1)
    /\ acquired' = AgeAcquired(acquired, 1)
    /\ sleepLeft' = AgeSleep(sleepLeft, 1)
    /\ UNCHANGED <<config, semaphore, closed, pc, lim, key, permit, calls>>

\* ------------------------------------------------------------ filesystem
MaxChanges == 1
MaxFolders == 2

MediaTypes == {"movie", "tv", "comic", "book"}
Dirs == {"/a", "/b"}
Scanners == {"s1", "s2"}
NoScan == [total |-> -1]

\* file names are kept as sequences of characters
FileArrival ==
    [dir |-> "/a", stem |-> <<"A", " ", "(", "2", "0", "1", "6", ")">>,
     ext |-> "mkv", size |-> 7]
FileHeat == [dir |-> "/a", stem |-> <<"H">>, ext |-> "MKV", size |-> 3]
FileNotes == [dir |-> "/a", stem |-> <<"n">>, ext |-> "txt", size |-> 1]
FileComic == [dir |-> "/b", stem |-> <<"c">>, ext |-> "pdf", size |-> 2]
Files == {FileArrival, FileHeat, FileNotes, FileComic}
\* files that may sit in a directory without search permission
LockableFiles == {FileHeat}

\* entry_path.to_string_lossy().to_string()
PathOf(f) == <<f.dir, f.stem, f.ext>>

\* an extension check that forgets to fold the case
to_lowercase_identity(ext) == ext

\* ext.to_string_lossy().to_lowercase()
to_lowercase(ext) == IF ext = "MKV" THEN "mkv" ELSE ext

\* get_supported_extensions
get_supported_extensions(media_type) ==
    CASE media_type \in {"movie", "tv"} ->
            {"mkv", "mp4", "avi", "mov", "wmv", "flv", "webm", "m4v", "mpg",
             "mpeg", "m2ts", "ts"}
      [] media_type = "comic" -> {"cbz", "cbr", "cb7", "cbt", "pdf"}
      [] media_type = "book" -> {"epub", "mobi", "azw3", "pdf"}

\* extract_title: file_stem
extract_title(f) == f.stem

\* entry.metadata() succeeds
MetadataReadable(f) == f \in files /\ f \notin unreadable

\* ----------------------------------------------------------------- store
MaxOf(S) == IF S = {} THEN 0 ELSE CHOOSE m \in S : \A x \in S : x <= m

\* the integer primary key given to a new row
NextId(rows) == MaxOf({r.id : r \in rows}) + 1

\* a lookup that never finds the row
find_by_path_none(rows, path) == {}

\* MediaItem::find_by_path
find_by_path(rows, path) == {r \in rows : r.file_path = path}

\* LibraryFolder::find_by_id
find_folder_by_id(rows, id) == {r \in rows : r.id = id}

\* an outside change: every running scan is disturbed and no earlier scan
\* can be repeated unchanged any more
Invalidate ==
    /\ scanClean' = [s \in Scanners |-> FALSE]
    /\ scanBase' = [s \in Scanners |-> NoScan]
    /\ prevScan' = [i \in 1..MaxFolders |-> NoScan]

ZeroResult == [total_files |-> 0, new_items |-> 0, existing_items |-> 0, errors |-> 0]

\* no scan running
InitScansIdle ==
    /\ scanPc = [s \in Scanners |-> "idle"]
    /\ scanFolder = [s \in Scanners |-> [id |-> 0]]
    /\ scanTodo = [s \in Scanners |-> {}]
    /\ scanCur = [s \in Scanners |-> <<>>]
    /\ scanResult = [s \in Scanners |-> ZeroResult]
    /\ scanErr = [s \in Scanners |-> "none"]
    /\ scanClean = [s \in Scanners |-> FALSE]
    /\ scanBase = [s \in Scanners |-> NoScan]
    /\ prevScan = [i \in 1..MaxFolders |-> NoScan]

\* db::init on a fresh database, no scan running
InitStoreAndScans ==
    /\ dbUp = TRUE
    /\ libraryFolders = {}
    /\ mediaItems = {}
    /\ videoMetadata = {}
    /\ InitScansIdle

\* no search is being made
NoQuery == [title |-> <<>>, year |-> <<>>]

\* a search result that is absent (Option::None of matching_result)
NoResult == [kind |-> "none", id |-> 0]

\* MetadataAgent::new, no batch running
InitAgentIdle ==
    /\ now = 0
    /\ agPc = "idle"
    /\ batchItems = <<>>
    /\ batchIdx = 0
    /\ batchResults = <<>>
    /\ agQuery = NoQuery
    /\ agPick = NoResult
    /\ agSeen = <<>>
    /\ apps = <<>>

\* the positions a spawned metadata task can be at
MetadataTasks == {"t1", "t2"}
FreeTask == [pc |-> "free", folder_id |-> 0, items |-> <<>>, idx |-> 0]

\* no scan-all request is being served
IdleScanAll ==
    [pc |-> "idle", todo |-> <<>>, results |-> <<>>, listed |-> {}, seen |-> "none"]

\* no metadata task was spawned and scan_all_libraries is not running
InitReqIdle ==
    /\ mdTask = [t \in MetadataTasks |-> FreeTask]
    /\ scanAll = IdleScanAll

\* no function is being studied
NoCall == [fn |-> "none"]
\* the keys used with the cache: (provider, media_type, query)
CacheKeys ==
    {[provider |-> "tmdb", media_type |-> "movie", query |-> "test1"],
     [provider |-> "tmdb", media_type |-> "movie", query |-> "test2"]}

\* nothing was ever done to a key
Untouched == [op |-> "none", value |-> [type |-> "none", v |-> <<>>], age |-> 0,
              evicted |-> FALSE]

\* ScraperCache::with_config: an empty cache
with_config(ttl_seconds, max_capacity) ==
    [ttl_seconds |-> ttl_seconds, max_capacity |-> max_capacity,
     map |-> [k \in CacheKeys |-> <<>>], entry_count |-> 0]

\* a cache that nobody uses
NoneCounted == [new |-> {}, existing |-> {}, errors |-> {}]

InitRaceIdle ==
    /\ countedAs = [s \in Scanners |-> NoneCounted]
    /\ refused = [t \in MetadataTasks |-> FALSE]

InitCacheIdle ==
    /\ cache = with_config(2, 2)
    /\ cacheHist = [k \in CacheKeys |-> Untouched]

\* no adapter has sent a request
InitLookupIdle ==
    /\ outbound = [k \in CacheKeys |-> 0]
    /\ answered = {}

InitAuxIdle ==
    /\ call = NoCall
    /\ ret = NoCall
    /\ InitCacheIdle
    /\ InitRaceIdle
    /\ InitLookupIdle

\* ------------------------------------------------- organizer: filesystem
\* A path is a sequence of components and a component (a file or directory
\* name) a sequence of characters.  An entry is what sits at a path.
DirIn == <<"i", "n">>
DirSub == <<"x">>
DirOut == <<"o", "u", "t">>
NameA == <<"a", ".", "m", "k", "v">>

\* kind is "dir", "file" (with inode number and content), "symlink" (with
\* the path it names) or "absent"
Entry(p, kind, ino, data, to) ==
    [path |-> p, kind |-> kind, ino |-> ino, data |-> data, to |-> to]

\* lstat: the entry at the path itself
Node(d, p) ==
    IF \E e \in d : e.path = p THEN CHOOSE e \in d : e.path = p
    ELSE Entry(p, "absent", 0, <<>>, <<>>)

\* stat: the entry the path leads to, symbolic links followed
Stat(d, p) ==
    LET n == Node(d, p)
    IN IF n.kind = "symlink"
       THEN LET m == Node(d, n.to)
            IN IF m.kind = "symlink" THEN Entry(p, "absent", 0, <<>>, <<>>)
               ELSE m
       ELSE n

\* Path::exists
exists(d, p) == Stat(d, p).kind # "absent"

\* Path::parent
parent(p) == SubSeq(p, 1, Len(p) - 1)

\* the directory an entry is created in is there
ParentIsDir(d, p) == Len(p) = 1 \/ Stat(d, parent(p)).kind = "dir"

\* a filesystem call gives [ok, disk]: whether it succeeded and what it left
FsRes(ok, d) == [ok |-> ok, disk |-> d]

\* std::fs::create_dir_all: mkdir, after the missing ancestors were made; a
\* path that is a directory already is accepted
RECURSIVE create_dir_all(_, _, _)
create_dir_all(d, p, deny) ==
    IF p = <<>> \/ Stat(d, p).kind = "dir" THEN FsRes(TRUE, d)
    ELSE IF Node(d, p).kind # "absent" THEN FsRes(FALSE, d)
    ELSE LET up == create_dir_all(d, parent(p), deny)
         IN IF ~up.ok \/ deny THEN FsRes(FALSE, up.disk)
            ELSE FsRes(TRUE, up.disk \cup {Entry(p, "dir", 0, <<>>, <<>>)})

\* std::os::unix::fs::symlink(source, target): EEXIST when anything sits at
\* the target; the source is not looked at
symlink(d, source, target, deny) ==
    IF deny \/ Node(d, target).kind # "absent" \/ ~ParentIsDir(d, target)
    THEN FsRes(FALSE, d)
    ELSE FsRes(TRUE, d \cup {Entry(target, "symlink", 0, <<>>, source)})

\* std::fs::hard_link(source, target): a second name for the source's inode
hard_link(d, source, target, deny) ==
    IF \/ deny
       \/ Node(d, source).kind \notin {"file", "symlink"}
       \/ Node(d, target).kind # "absent"
       \/ ~ParentIsDir(d, target)
    THEN FsRes(FALSE, d)
    ELSE FsRes(TRUE, d \cup {[Node(d, source) EXCEPT !.path = target]})

\* tokio::fs::copy(source, target): the target is opened with create and
\* truncate (through a symbolic link sitting there), then the bytes are
\* copied; an existing file keeps its inode
copy(d, source, target, deny) ==
    LET s == Stat(d, source)
        t == Node(d, target)
        dest == IF t.kind = "symlink" THEN t.to ELSE target
        o == Node(d, dest)
    IN IF \/ deny
          \/ s.kind # "file"
          \/ o.kind \notin {"absent", "file"}
          \/ ~ParentIsDir(d, dest)
       THEN FsRes(FALSE, d)
       ELSE IF o.kind = "absent"
       THEN FsRes(TRUE, d \cup {Entry(dest, "file", MaxOf({e.ino : e \in d}) + 1,
                                      s.data, <<>>)})
       ELSE FsRes(TRUE,
                  {IF e.kind = "file" /\ e.ino = o.ino
                   THEN [e EXCEPT !.data = IF o.ino = s.ino THEN <<>> ELSE s.data]
                   ELSE e : e \in d})

\* tokio::fs::rename(source, target): the target entry is replaced; nothing
\* happens when both are names of one inode
rename(d, source, target, deny) ==
    LET s == Node(d, source)
        t == Node(d, target)
    IN IF \/ deny
          \/ s.kind \notin {"file", "symlink"}
          \/ t.kind = "dir"
          \/ ~ParentIsDir(d, target)
       THEN FsRes(FALSE, d)
       ELSE IF s.kind = "file" /\ t.kind = "file" /\ s.ino = t.ino
       THEN FsRes(TRUE, d)
       ELSE FsRes(TRUE, (d \ {s, t}) \cup {[s EXCEPT !.path = target]})

\* ---- the organizer's configuration and inputs
OrganizeMethods == {"SoftLink", "HardLink", "Copy", "Move"}

\* two media files of one name, the second in a subdirectory of the source
\* directory
SrcA == [path |-> <<DirIn, NameA>>, media_type |-> "Video"]
SrcB == [path |-> <<DirIn, DirSub, NameA>>, media_type |-> "Video"]
OrgFiles == {SrcA, SrcB}

\* the source directory with its files; the target directory does not exist
Disk0 ==
    {Entry(<<DirIn>>, "dir", 0, <<>>, <<>>),
     Entry(<<DirIn, DirSub>>, "dir", 0, <<>>, <<>>),
     Entry(SrcA.path, "file", 1, <<"A">>, <<>>),
     Entry(SrcB.path, "file", 2, <<"B">>, <<>>)}

\* AyiahScraper::new
NewScraper(method) ==
    [organize_method |-> method, source_path |-> <<DirIn>>,
     target_path |-> <<DirOut>>, max_concurrent_tasks |-> 2,
     retry_count |-> 3, skip_existing |-> TRUE, dry_run |-> FALSE]

\* no execution of process_single_file on the file
IdleTask ==
    [pc |-> "idle", viaRun |-> FALSE, attempt |-> 0, target |-> <<>>,
     last_error |-> "none", result |-> "none", log |-> <<>>, runs |-> 0,
     first |-> [done |-> FALSE]]

ZeroProgress ==
    [total_files |-> 0, processed_files |-> 0, successful_files |-> 0,
     failed_files |-> 0]

\* no file is being processed and run() was not called
InitTasksIdle ==
    /\ disk = Disk0
    /\ denied = FALSE
    /\ task = [f \in OrgFiles |-> IdleTask]
    /\ runPc = "idle"
    /\ runFiles = {}
    /\ permits = 0
    /\ progress_rx = <<>>
    /\ progress = ZeroProgress
    /\ runResult = [kind |-> "none"]

\* no organizer is at work
InitOrgIdle ==
    /\ scraper = NewScraper("SoftLink")
    /\ fetchUp = TRUE
    /\ InitTasksIdle

\* the state in which no folder was created and no scan runs
InitPipelineIdle ==
    /\ files = Files
    /\ unreadable = {}
    /\ dirState = [d \in Dirs |-> "dir"]
    /\ changes = 0
    /\ InitStoreAndScans
    /\ InitAgentIdle
    /\ InitOrgIdle
    /\ InitReqIdle
    /\ InitAuxIdle

\* ---- the environment
AddFile(f) ==
    /\ changes < MaxChanges
    /\ f \notin files
    /\ dirState[f.dir] = "dir"
    /\ files' = files \cup {f}
    /\ changes' = changes + 1
    /\ Invalidate
    /\ UNCHANGED <<unreadable, dirState, storeVars, scanVars>>

RemoveFile(f) ==
    /\ changes < MaxChanges
    /\ f \in files
    /\ files' = files \ {f}
    /\ unreadable' = unreadable \ {f}
    /\ changes' = changes + 1
    /\ Invalidate
    /\ UNCHANGED <<dirState, storeVars, scanVars>>

\* the directory of f loses (or gets back) its search permission
SetUnreadable(f, b) ==
    /\ changes < MaxChanges
    /\ f \in files /\ f \in LockableFiles
    /\ b # (f \in unreadable)
    /\ unreadable' = IF b THEN unreadable \cup {f} ELSE unreadable \ {f}
    /\ changes' = changes + 1
    /\ Invalidate
    /\ UNCHANGED <<files, dirState, storeVars, scanVars>>

\* a folder path is removed, replaced by a plain file, or made a directory
SetDir(d, st) ==
    /\ changes < MaxChanges
    /\ dirState[d] # st
    /\ dirState' = [dirState EXCEPT ![d] = st]
    /\ files' = IF st = "dir" THEN files ELSE {f \in files : f.dir # d}
    /\ unreadable' = IF st = "dir" THEN unreadable ELSE {f \in unreadable : f.dir # d}
    /\ changes' = changes + 1
    /\ Invalidate
    /\ UNCHANGED <<storeVars, scanVars>>

\* the store stops or resumes answering
SetDbUp(b) ==
    /\ changes < MaxChanges
    /\ dbUp # b
    /\ dbUp' = b
    /\ changes' = changes + 1
    /\ Invalidate
    /\ UNCHANGED <<files, unreadable, dirState, libraryFolders, mediaItems,
                   videoMetadata, scanVars>>

\* ---- library folders
\* library_folders.path is unique
FolderPathFree(d) == \A r \in libraryFolders : r.path # d

\* library_folders.enabled of a new row
DefaultEnabled == TRUE

\* create_folder and LibraryFolder::create
CreateFolder(d, mt) ==
    /\ dirState[d] = "dir"
    /\ dbUp
    /\ Cardinality(libraryFolders) < MaxFolders
    /\ FolderPathFree(d)
    /\ libraryFolders' = libraryFolders \cup
          {[id |-> NextId(libraryFolders), path |-> d, media_type |-> mt,
            enabled |-> DefaultEnabled]}
    /\ Invalidate
    /\ UNCHANGED <<fsVars, dbUp, mediaItems, videoMetadata, scanVars>>

\* LibraryFolder::update, applied to the enabled flag
UpdateFolder(id, en) ==
    /\ changes < MaxChanges
    /\ changes' = changes + 1
    /\ dbUp
    /\ \E r \in libraryFolders :
          /\ r.id = id /\ r.enabled # en
          /\ libraryFolders' = (libraryFolders \ {r}) \cup {[r EXCEPT !.enabled = en]}
    /\ Invalidate
    /\ UNCHANGED <<files, unreadable, dirState, dbUp, mediaItems, videoMetadata, scanVars>>

\* the media items, and the metadata rows, left when folder id is deleted:
\* the delete cascades to the folder's items and to their metadata
ItemsAfterFolderDelete(id) == {m \in mediaItems : m.library_folder_id # id}
MetadataAfterFolderDelete(id) ==
    {v \in videoMetadata :
        \E m \in ItemsAfterFolderDelete(id) : m.id = v.media_item_id}

\* a delete that removes the folder row and nothing else
DeleteFolder_rowOnly(id) ==
    /\ changes < MaxChanges
    /\ changes' = changes + 1
    /\ dbUp
    /\ \E r \in libraryFolders : r.id = id
    /\ libraryFolders' = {r \in libraryFolders : r.id # id}
    /\ Invalidate
    /\ UNCHANGED <<files, unreadable, dirState, dbUp, mediaItems, videoMetadata,
                   scanVars>>

\* delete_folder and LibraryFolder::delete
DeleteFolder(id) ==
    /\ changes < MaxChanges
    /\ changes' = changes + 1
    /\ dbUp
    /\ \E r \in libraryFolders : r.id = id
    /\ libraryFolders' = {r \in libraryFolders : r.id # id}
    /\ mediaItems' = ItemsAfterFolderDelete(id)
    /\ videoMetadata' = MetadataAfterFolderDelete(id)
    /\ Invalidate
    /\ UNCHANGED <<files, unreadable, dirState, dbUp, scanVars>>

\* ---------------------------------------------------------------- scanner
\* scan_library_folder, lines 34-49: the checks of the folder's path; the
\* walk begins when the path is a directory
BeginScan(s, folder) ==
    /\ scanPc[s] = "idle"
    /\ scanFolder' = [scanFolder EXCEPT ![s] = folder]
    /\ scanResult' = [scanResult EXCEPT ![s] = ZeroResult]
    /\ scanCur' = [scanCur EXCEPT ![s] = <<>>]
    /\ scanClean' = [scanClean EXCEPT ![s] = TRUE]
    /\ scanBase' = [scanBase EXCEPT ![s] = prevScan[folder.id]]
    /\ CASE dirState[folder.path] = "missing" ->
              /\ scanErr' = [scanErr EXCEPT ![s] = "PathNotFound"]
              /\ scanPc' = [scanPc EXCEPT ![s] = "done"]
              /\ scanTodo' = [scanTodo EXCEPT ![s] = {}]
         [] dirState[folder.path] = "file" ->
              /\ scanErr' = [scanErr EXCEPT ![s] = "NotADirectory"]
              /\ scanPc' = [scanPc EXCEPT ![s] = "done"]
              /\ scanTodo' = [scanTodo EXCEPT ![s] = {}]
         [] OTHER ->
              /\ scanErr' = [scanErr EXCEPT ![s] = "none"]
              /\ scanPc' = [scanPc EXCEPT ![s] = "walk"]
              /\ scanTodo' = [scanTodo EXCEPT ![s] =
                      {f \in files : f.dir = folder.path}]
    /\ UNCHANGED <<fsVars, storeVars, prevScan>>

\* scan_folder, lines 132-156: the folder is looked up and scanned
ScanStart(s, id) ==
    /\ dbUp
    /\ \E folder \in find_folder_by_id(libraryFolders, id) : BeginScan(s, folder)

Count(res, field) == [res EXCEPT ![field] = @ + 1]

\* a visit that counts the entry in total_files before the extension filter
ScanVisit_countsEveryEntry(s, f) ==
    /\ scanPc[s] = "walk"
    /\ f \in scanTodo[s]
    /\ scanTodo' = [scanTodo EXCEPT ![s] = @ \ {f}]
    /\ LET folder == scanFolder[s]
           counted == Count(scanResult[s], "total_files")
       IN  IF to_lowercase(f.ext) \notin get_supported_extensions(folder.media_type)
           THEN /\ scanResult' = [scanResult EXCEPT ![s] = counted]
                /\ UNCHANGED <<scanPc, scanCur, scanClean>>
           ELSE IF ~MetadataReadable(f)
           THEN /\ scanResult' = [scanResult EXCEPT ![s] = Count(counted, "errors")]
                /\ UNCHANGED <<scanPc, scanCur, scanClean>>
           ELSE IF ~dbUp
           THEN /\ scanResult' = [scanResult EXCEPT ![s] = Count(counted, "errors")]
                /\ scanClean' = [scanClean EXCEPT ![s] = FALSE]
                /\ UNCHANGED <<scanPc, scanCur>>
           ELSE IF find_by_path(mediaItems, PathOf(f)) # {}
           THEN /\ scanResult' = [scanResult EXCEPT ![s] =
                                      Count(counted, "existing_items")]
                /\ UNCHANGED <<scanPc, scanCur, scanClean>>
           ELSE /\ scanResult' = [scanResult EXCEPT ![s] = counted]
                /\ scanPc' = [scanPc EXCEPT ![s] = "create"]
                /\ scanCur' = [scanCur EXCEPT ![s] = f]
                /\ UNCHANGED scanClean
    /\ UNCHANGED <<fsVars, storeVars, scanFolder, scanErr, scanBase, prevScan>>

\* scan_library_folder, lines 52-95 and 117-121: the walk yields entry f; the
\* extension filter, the metadata read and the find_by_path query
ScanVisit(s, f) ==
    /\ scanPc[s] = "walk"
    /\ f \in scanTodo[s]
    /\ scanTodo' = [scanTodo EXCEPT ![s] = @ \ {f}]
    /\ LET folder == scanFolder[s]
           counted == Count(scanResult[s], "total_files")
       IN  IF to_lowercase(f.ext) \notin get_supported_extensions(folder.media_type)
           THEN UNCHANGED <<scanResult, scanPc, scanCur, scanClean>>
           ELSE IF ~MetadataReadable(f)
           THEN /\ scanResult' = [scanResult EXCEPT ![s] = Count(counted, "errors")]
                /\ UNCHANGED <<scanPc, scanCur, scanClean>>
           ELSE IF ~dbUp
           THEN /\ scanResult' = [scanResult EXCEPT ![s] = Count(counted, "errors")]
                /\ scanClean' = [scanClean EXCEPT ![s] = FALSE]
                /\ UNCHANGED <<scanPc, scanCur>>
           ELSE IF find_by_path(mediaItems, PathOf(f)) # {}
           THEN /\ scanResult' = [scanResult EXCEPT ![s] =
                                      Count(counted, "existing_items")]
                /\ UNCHANGED <<scanPc, scanCur, scanClean>>
           ELSE /\ scanResult' = [scanResult EXCEPT ![s] = counted]
                /\ scanPc' = [scanPc EXCEPT ![s] = "create"]
                /\ scanCur' = [scanCur EXCEPT ![s] = f]
                /\ UNCHANGED scanClean
    /\ UNCHANGED <<fsVars, storeVars, scanFolder, scanErr, scanBase, prevScan>>

\* media_items.file_path is unique and library_folder_id references a folder
ItemConstraintsHold(folder, path) ==
    /\ \A m \in mediaItems : m.file_path # path
    /\ \E r \in libraryFolders : r.id = folder.id

\* the INSERT of MediaItem::create is accepted by the store
InsertAccepted(folder, path) == dbUp /\ ItemConstraintsHold(folder, path)

\* the row that MediaItem::create inserts for entry f of the folder
MediaItemRow(id, folder, f) ==
    [id |-> id,
     library_folder_id |-> folder.id,
     media_type |-> folder.media_type,
     title |-> extract_title(f),
     file_path |-> PathOf(f),
     file_size |-> f.size]

\* a create that counts the file as new whatever the INSERT returns
ScanCreate_countsFailedInsert(s) ==
    /\ scanPc[s] = "create"
    /\ scanPc' = [scanPc EXCEPT ![s] = "walk"]
    /\ LET folder == scanFolder[s]
           f == scanCur[s]
       IN  /\ scanResult' = [scanResult EXCEPT ![s] = Count(@, "new_items")]
           /\ IF InsertAccepted(folder, PathOf(f))
              THEN /\ mediaItems' = mediaItems \cup
                         {MediaItemRow(NextId(mediaItems), folder, f)}
                   /\ scanClean' = [t \in Scanners |->
                                       IF t = s THEN scanClean[s] ELSE FALSE]
                   /\ scanBase' = [t \in Scanners |->
                                      IF t = s THEN scanBase[s] ELSE NoScan]
                   /\ prevScan' = [i \in 1..MaxFolders |-> NoScan]
              ELSE /\ scanClean' = [scanClean EXCEPT ![s] = FALSE]
                   /\ UNCHANGED <<mediaItems, scanBase, prevScan>>
    /\ UNCHANGED <<fsVars, dbUp, libraryFolders, videoMetadata, scanFolder, scanTodo,
                   scanCur, scanErr>>

\* scan_library_folder, lines 96-116: MediaItem::create
ScanCreate(s) ==
    /\ scanPc[s] = "create"
    /\ scanPc' = [scanPc EXCEPT ![s] = "walk"]
    /\ LET folder == scanFolder[s]
           f == scanCur[s]
       IN  IF InsertAccepted(folder, PathOf(f))
           THEN /\ mediaItems' = mediaItems \cup
                      {MediaItemRow(NextId(mediaItems), folder, f)}
                /\ scanResult' = [scanResult EXCEPT ![s] = Count(@, "new_items")]
                \* the store changed: other scans are disturbed
                /\ scanClean' = [t \in Scanners |-> IF t = s THEN scanClean[s] ELSE FALSE]
                /\ scanBase' = [t \in Scanners |-> IF t = s THEN scanBase[s] ELSE NoScan]
                /\ prevScan' = [i \in 1..MaxFolders |-> NoScan]
           ELSE /\ scanResult' = [scanResult EXCEPT ![s] = Count(@, "errors")]
                /\ scanClean' = [scanClean EXCEPT ![s] = FALSE]
                /\ UNCHANGED <<mediaItems, scanBase, prevScan>>
    /\ UNCHANGED <<fsVars, dbUp, libraryFolders, videoMetadata, scanFolder, scanTodo,
                   scanCur, scanErr>>

\* a scan that ends by deleting the rows of the folder whose file is gone
ScanFinish_prunesMissing(s) ==
    /\ scanPc[s] = "walk"
    /\ scanTodo[s] = {}
    /\ scanPc' = [scanPc EXCEPT ![s] = "done"]
    /\ mediaItems' =
          {m \in mediaItems :
              \/ m.library_folder_id # scanFolder[s].id
              \/ \E f \in files : PathOf(f) = m.file_path}
    /\ prevScan' = [prevScan EXCEPT ![scanFolder[s].id] = NoScan]
    /\ UNCHANGED <<fsVars, dbUp, libraryFolders, videoMetadata, scanFolder, scanTodo,
                   scanCur, scanResult, scanErr, scanClean, scanBase>>

\* scan_library_folder, lines 124-134: the walk is over, Ok(ScanResult)
ScanFinish(s) ==
    /\ scanPc[s] = "walk"
    /\ scanTodo[s] = {}
    /\ scanPc' = [scanPc EXCEPT ![s] = "done"]
    /\ prevScan' = [prevScan EXCEPT ![scanFolder[s].id] =
          IF scanResult[s].errors = 0 /\ scanClean[s]
          THEN [total |-> scanResult[s].total_files,
                store |-> <<libraryFolders, mediaItems, videoMetadata>>]
          ELSE NoScan]
    /\ UNCHANGED <<fsVars, storeVars, scanFolder, scanTodo, scanCur, scanResult,
                   scanErr, scanClean, scanBase>>

\* scan_folder, lines 156-205: the response is sent
ScanReturn(s) ==
    /\ scanPc[s] = "done"
    /\ scanPc' = [scanPc EXCEPT ![s] = "idle"]
    /\ scanFolder' = [scanFolder EXCEPT ![s] = [id |-> 0]]
    /\ scanCur' = [scanCur EXCEPT ![s] = <<>>]
    /\ scanResult' = [scanResult EXCEPT ![s] = ZeroResult]
    /\ scanErr' = [scanErr EXCEPT ![s] = "none"]
    /\ scanClean' = [scanClean EXCEPT ![s] = FALSE]
    /\ scanBase' = [scanBase EXCEPT ![s] = NoScan]
    /\ UNCHANGED <<fsVars, storeVars, scanTodo, prevScan>>

\* ------------------------------------- specification of sequential scans
MainScanner == "s1"

InitScan ==
    /\ InitLimiter
    /\ config = [max_concurrent |-> 1, max_requests |-> 1, window_seconds |-> 1]
    /\ registered = {"tmdb"}
    /\ token = "none"
    /\ InitStoreAndScans
    /\ InitAgentIdle
    /\ InitOrgIdle
    /\ InitReqIdle
    /\ InitAuxIdle
    /\ files \in {Files \ X : X \in SUBSET {FileHeat, FileNotes}}
    /\ unreadable \in SUBSET (files \cap LockableFiles)
    /\ dirState = [d \in Dirs |-> "dir"]
    /\ changes = 0

NextScan ==
    /\ \/ \E f \in Files : AddFile(f)
       \/ \E f \in Files : RemoveFile(f)
       \/ \E f \in Files, b \in BOOLEAN : SetUnreadable(f, b)
       \/ \E d \in Dirs, st \in {"dir", "file", "missing"} : SetDir(d, st)
       \/ \E b \in BOOLEAN : SetDbUp(b)
       \/ \E d \in Dirs, mt \in MediaTypes : CreateFolder(d, mt)
       \/ \E id \in 1..MaxFolders, en \in BOOLEAN : UpdateFolder(id, en)
       \/ \E id \in 1..MaxFolders : DeleteFolder(id)
       \/ \E id \in 1..MaxFolders : ScanStart(MainScanner, id)
       \/ \E f \in Files : ScanVisit(MainScanner, f)
       \/ ScanCreate(MainScanner)
       \/ ScanFinish(MainScanner)
       \/ ScanReturn(MainScanner)
    /\ UNCHANGED <<rlVars, adVars, metaVars, orgVars, reqVars, auxVars>>

SpecScan == InitScan /\ [][NextScan]_vars

\* the extension map of the scanner's contract, on lowercased extensions
VideoExtensions ==
    {"mkv", "mp4", "avi", "mov", "wmv", "flv", "webm", "m4v", "mpg", "mpeg", "m2ts", "ts"}
ContractExtensions(kind) ==
    CASE kind \in {"movie", "tv"} -> VideoExtensions \cup {"MKV"}
      [] kind = "comic" -> {"cbz", "cbr", "cb7", "cbt", "pdf"}
      [] kind = "book" -> {"epub", "mobi", "azw3", "pdf"}

\* files of the folder that the scanner has to pick up
Supported(folder) ==
    {f \in files : f.dir = folder.path /\ f.ext \in ContractExtensions(folder.media_type)}

RowsOf(f) == {m \in mediaItems : m.file_path = PathOf(f)}

\* a scan of an enabled folder has completed without store failure and
\* without any outside change while it ran
CompletedScan(s) ==
    /\ scanPc[s] = "done"
    /\ scanErr[s] = "none"
    /\ scanClean[s]
    /\ scanFolder[s].enabled

C3_RescanIdempotent ==
    \A s \in Scanners :
        (scanPc[s] = "done" /\ scanBase[s] # NoScan) =>
            /\ scanErr[s] = "none"
            /\ scanResult[s].new_items = 0
            /\ scanResult[s].existing_items = scanBase[s].total
            /\ scanResult[s].errors = 0
            /\ <<libraryFolders, mediaItems, videoMetadata>> = scanBase[s].store

\* a repeated scan over a folder with two rows
C3_Witness ==
    \E s \in Scanners :
        /\ scanPc[s] = "done"
        /\ scanBase[s] # NoScan
        /\ scanBase[s].total = 2
        /\ scanResult[s].total_files = 2

\* ---------------------------------------- specification of one RateLimiter
InitRL ==
    /\ InitLimiter
    /\ registered = {}
    /\ token = "none"
    /\ InitPipelineIdle

NextRL ==
    /\ \/ \E c \in Callers, p \in DirectKeys :
             EnterAcquire(c, DirectLimiter, p) /\ UNCHANGED adVars
       \/ \E c \in Callers : TakePermit(c) /\ UNCHANGED adVars
       \/ \E c \in Callers, d \in 0..1 : TryWindow(c, d) /\ UNCHANGED adVars
       \/ \E c \in Callers : Wake(c) /\ UNCHANGED adVars
       \/ \E c \in Callers : DropGuard(c) /\ UNCHANGED adVars
       \/ Tick /\ UNCHANGED adVars
    /\ UNCHANGED <<pipeVars, metaVars, orgVars, reqVars, auxVars>>

SpecRL == InitRL /\ [][NextRL]_vars

\* callers that own a permit of instance l
Holders(l) == {c \in Callers : permit[c] /\ lim[c] = l}

\* C1: with max_requests = R >= 1 and window_seconds = W, every window of W
\* ticks holds at most R acquisitions granted for one provider key.
C1_WindowBound ==
    \A l \in Adapters, p \in Adapters :
        config.max_requests >= 1 => InWindow(l, p) <= config.max_requests

\* a full window: R >= 1 acquisitions inside the window and a caller that
\* found the window full and sleeps on it
C1_Witness ==
    \E c \in Callers :
        /\ pc[c] = "sleeping"
        /\ config.max_requests >= 1
        /\ config.window_seconds >= 1
        /\ InWindow(lim[c], key[c]) = config.max_requests

\* C5: callers owning a permit (guards handed out, and callers in the window
\* loop) never exceed max_concurrent, the semaphore accounts for each of
\* them, and a dropped guard gives back exactly one permit.
C5_PermitAccounting ==
    /\ [](\A l \in Adapters :
            /\ Cardinality(Holders(l)) <= config.max_concurrent
            /\ semaphore[l] = config.max_concurrent - Cardinality(Holders(l)))
    /\ [][\A c \in Callers :
            (permit[c] /\ ~permit'[c]) =>
                semaphore'[lim[c]] = semaphore[lim[c]] + 1]_vars

\* every permit is taken, one caller sleeping in the window loop with its
\* permit, and a guard is about to be dropped
C5_Witness ==
    /\ semaphore[DirectLimiter] = 0
    /\ config.max_concurrent = 2
    /\ \E c \in Callers : pc[c] = "sleeping" /\ permit[c]
    /\ \E c \in Callers : pc[c] = "holding" /\ permit[c]

\* --------------------------------------------- the limiter under fairness
\* every caller keeps running (the runtime polls a ready task), a guard that
\* was handed out is dropped, and time advances
FairnessRL ==
    /\ \A c \in Callers : WF_vars(TakePermit(c) /\ UNCHANGED <<adVars, pipeVars, metaVars, orgVars, reqVars, auxVars>>)
    /\ \A c \in Callers :
          WF_vars(\E d \in 0..1 : TryWindow(c, d) /\ UNCHANGED <<adVars, pipeVars, metaVars, orgVars, reqVars, auxVars>>)
    /\ \A c \in Callers : WF_vars(Wake(c) /\ UNCHANGED <<adVars, pipeVars, metaVars, orgVars, reqVars, auxVars>>)
    /\ \A c \in Callers : WF_vars(DropGuard(c) /\ UNCHANGED <<adVars, pipeVars, metaVars, orgVars, reqVars, auxVars>>)
    /\ WF_vars(Tick /\ UNCHANGED <<adVars, pipeVars, metaVars, orgVars, reqVars, auxVars>>)

SpecRLFair == InitRL /\ [][NextRL]_vars /\ FairnessRL

GuardedRequest(c, a) ==
    /\ a \in RateLimitedAdapters
    /\ EnterAcquire(c, a, a)
    /\ UNCHANGED adVars

\* TvdbProvider::request, line 78: get_token() returns the cached token or
\* starts the login POST; then the GET is sent
TvdbRequest(c) ==
    /\ pc[c] = "idle"
    /\ calls[c] < MaxCalls
    /\ pc' = [pc EXCEPT ![c] = IF token = "none" THEN "login" ELSE "sending"]
    /\ lim' = [lim EXCEPT ![c] = "tvdb"]
    /\ key' = [key EXCEPT ![c] = "tvdb"]
    /\ calls' = [calls EXCEPT ![c] = @ + 1]
    /\ UNCHANGED <<config, semaphore, closed, records, permit, sleepLeft, acquired>>
    /\ UNCHANGED adVars

\* TvdbProvider::get_token, lines 50-73: the login response arrives
TvdbLoginDone(c, ok) ==
    /\ pc[c] = "login"
    /\ IF ok
       THEN /\ token' = "tok"
            /\ pc' = [pc EXCEPT ![c] = "sending"]
       ELSE /\ token' = token
            /\ pc' = [pc EXCEPT ![c] = "idle"]
    /\ UNCHANGED <<config, semaphore, closed, records, lim, key, permit, sleepLeft,
                   calls, acquired, registered>>

\* AniListProvider::query, lines 38-47: the POST is sent at once
AniListRequest(c) ==
    /\ pc[c] = "idle"
    /\ calls[c] < MaxCalls
    /\ pc' = [pc EXCEPT ![c] = "sending"]
    /\ lim' = [lim EXCEPT ![c] = "anilist"]
    /\ key' = [key EXCEPT ![c] = "anilist"]
    /\ calls' = [calls EXCEPT ![c] = @ + 1]
    /\ UNCHANGED <<config, semaphore, closed, records, permit, sleepLeft, acquired>>
    /\ UNCHANGED adVars

\* an operation (search, details, episode details) is invoked on adapter a
AdapterRequest(c, a) ==
    /\ a \in registered
    /\ CASE a \in RateLimitedAdapters -> GuardedRequest(c, a)
         [] a = "tvdb" -> TvdbRequest(c)
         [] OTHER -> AniListRequest(c)

\* get_with_rate_limit, lines 99-102: client.get(url).send() with _guard alive
GuardedSend(c) ==
    /\ pc[c] = "holding"
    /\ pc' = [pc EXCEPT ![c] = "sending"]
    /\ UNCHANGED <<config, semaphore, closed, records, lim, key, permit, sleepLeft,
                   calls, acquired>>
    /\ UNCHANGED adVars

\* send().await completes (response or network error); a guard held by
\* get_with_rate_limit is dropped on return
Respond(c) ==
    /\ pc[c] = "sending"
    /\ pc' = [pc EXCEPT ![c] = "idle"]
    /\ IF permit[c]
       THEN /\ semaphore' = [semaphore EXCEPT ![lim[c]] = @ + 1]
            /\ permit' = [permit EXCEPT ![c] = FALSE]
       ELSE UNCHANGED <<semaphore, permit>>
    /\ UNCHANGED <<config, closed, records, lim, key, sleepLeft, calls, acquired>>
    /\ UNCHANGED adVars

\* ProviderBase::new for each adapter built (each with its own RateLimiter and
\* the shared cache), then ScraperManager::add_provider
InitAdapters ==
    /\ InitLimiter
    /\ registered \in (SUBSET Adapters) \ {{}}
    /\ token = "none"
    /\ InitPipelineIdle

NextAdapters ==
    /\ \/ \E c \in Callers, a \in Adapters : AdapterRequest(c, a)
       \/ \E c \in Callers : TakePermit(c) /\ UNCHANGED adVars
       \/ \E c \in Callers, d \in 0..1 : TryWindow(c, d) /\ UNCHANGED adVars
       \/ \E c \in Callers : Wake(c) /\ UNCHANGED adVars
       \/ \E c \in Callers : GuardedSend(c)
       \/ \E c \in Callers, ok \in BOOLEAN : TvdbLoginDone(c, ok)
       \/ \E c \in Callers : Respond(c)
       \/ Tick /\ UNCHANGED adVars
    /\ UNCHANGED <<pipeVars, metaVars, orgVars, reqVars, auxVars>>

SpecAdapters == InitAdapters /\ [][NextAdapters]_vars

\* C7: whenever an adapter has an HTTP request in flight (search, details,
\* episode details, login), the caller holds a guard acquired on the
\* adapter's limiter under the adapter's name.
C7_RequestsAreGuarded ==
    \A c \in Callers :
        pc[c] \in {"sending", "login"} => permit[c] /\ key[c] = lim[c]

\* C8: the requests holding a rate limiter permit, over all adapters together,
\* never exceed max_concurrent.
C8_GlobalConcurrency ==
    Cardinality({c \in Callers : permit[c]}) <= config.max_concurrent

\* --------------------------------------------------------- metadata agent
MaxBatch == 2

\* scraper::MediaType
ResultKinds == {"Movie", "Tv", "Anime"}

\* Option values: None is the empty sequence, Some(x) the sequence <<x>>
Some(x) == <<x>>

\* the result lists the aggregator collects, as the kinds in result order
SearchReplies ==
    {<<>>,
     <<"Anime", "Tv">>,
     <<"Tv", "Movie", "Movie">>}

\* the MediaSearchResult values of a collected list; the id is the position
Results(kinds) == [i \in DOMAIN kinds |-> [kind |-> kinds[i], id |-> i]]

\* ScraperManager::search: the collected results, or NotFound when every
\* adapter failed or returned nothing
manager_search(query, kinds) ==
    IF kinds = <<>>
    THEN [ok |-> FALSE, results |-> <<>>]
    ELSE [ok |-> TRUE, results |-> Results(kinds)]

\* a get_details call that returned an error, and no get_details call
DetailsFailed == [kind |-> "fail"]
NoDetails == [kind |-> "none"]

\* MovieMetadata, TvMetadata and AnimeMetadata values
MovieDetails ==
    {[kind |-> "Movie", tmdb_id |-> Some(<<"3", "2", "9">>),
      release_date |-> Some("2016-11-11"), runtime |-> Some(116),
      genres |-> <<"Drama", "Mystery">>],
     [kind |-> "Movie", tmdb_id |-> Some(<<"t", "t", "1">>),
      release_date |-> <<>>, runtime |-> <<>>, genres |-> <<>>]}
TvDetails ==
    {[kind |-> "Tv", tmdb_id |-> Some(<<"1", "3">>),
      first_air_date |-> Some("2011-04-17"), episode_run_time |-> <<60, 45>>,
      genres |-> <<"Drama">>],
     [kind |-> "Tv", tmdb_id |-> <<>>,
      first_air_date |-> <<>>, episode_run_time |-> <<>>, genres |-> <<>>]}
AnimeDetails == {[kind |-> "Anime"]}

\* Provider::get_details of every adapter: details of the result's kind, or
\* an error
DetailsReplies(result) ==
    {DetailsFailed} \cup
    (CASE result.kind = "Movie" -> MovieDetails
       [] result.kind = "Tv" -> TvDetails
       [] OTHER -> AnimeDetails)

Digits == <<"0", "1", "2", "3", "4", "5", "6", "7", "8", "9">>
IsDigit(ch) == \E d \in 1..10 : Digits[d] = ch
DigitVal(ch) == (CHOOSE d \in 1..10 : Digits[d] = ch) - 1

RECURSIVE DecimalValue(_)
DecimalValue(str) ==
    IF str = <<>> THEN 0
    ELSE 10 * DecimalValue(SubSeq(str, 1, Len(str) - 1)) + DigitVal(str[Len(str)])

\* str::parse::<i64>().ok() on a string of the model's alphabet
parse_ok(str) ==
    IF str # <<>> /\ \A i \in DOMAIN str : IsDigit(str[i])
    THEN Some(DecimalValue(str))
    ELSE <<>>

\* Option::and_then(|id| id.parse().ok())
and_then_parse(opt) == IF opt = <<>> THEN <<>> ELSE parse_ok(opt[1])

RECURSIVE join_quoted(_)
join_quoted(strs) ==
    IF strs = <<>> THEN ""
    ELSE IF Len(strs) = 1 THEN "\"" \o strs[1] \o "\""
    ELSE "\"" \o strs[1] \o "\"," \o join_quoted(Tail(strs))

\* serde_json::to_string(&metadata.genres)
genres_json(strs) == "[" \o join_quoted(strs) \o "]"

\* \s of the regex crate: a white space character, the line feed included
IsSpace(ch) == ch \in {" ", "\n"}

\* a decimal digit outside ASCII (ARABIC-INDIC DIGIT ONE), written by its
\* code point
ArabicIndicOne == "U+0661"

\* \d of the regex crate, which is Unicode-aware: any decimal digit
IsUnicodeDigit(ch) == IsDigit(ch) \/ ch = ArabicIndicOne

\* . of the regex crate: any character but the line feed
IsDot(ch) == ch # "\n"

RECURSIVE trim_end(_)
trim_end(str) ==
    IF str # <<>> /\ IsSpace(str[Len(str)])
    THEN trim_end(SubSeq(str, 1, Len(str) - 1))
    ELSE str

\* parse_title_and_year: the regex ^(.+?)\s*\((\d{4})\)\s*$ applied to the
\* title; group 1 is the shortest non-empty prefix that lets the rest match;
\* the year is group 2 parsed as an integer, none when the parse fails
parse_title_and_year(title) ==
    LET t == trim_end(title)
        n == Len(t)
        head == SubSeq(t, 1, n - 6)
        group1 == IF trim_end(head) = <<>> THEN <<head[1]>> ELSE trim_end(head)
        hit == /\ n >= 7
               /\ t[n] = ")"
               /\ t[n - 5] = "("
               /\ \A i \in (n - 4)..(n - 1) : IsUnicodeDigit(t[i])
               /\ \A i \in DOMAIN group1 : IsDot(group1[i])
    IN  IF hit
        THEN [title |-> group1, year |-> parse_ok(SubSeq(t, n - 4, n - 1))]
        ELSE [title |-> title, year |-> <<>>]

\* the matches! of fetch_and_save_metadata, lines 50-54
kind_matches(item_kind, result_kind) ==
    \/ item_kind = "movie" /\ result_kind = "Movie"
    \/ item_kind = "tv" /\ result_kind = "Tv"

\* a selection that takes the first result whatever its kind
matching_result_firstAny(item_kind, results) ==
    IF results = <<>> THEN NoResult ELSE results[1]

\* fetch_and_save_metadata, lines 47-59: search_results.into_iter().find(..)
matching_result(item_kind, results) ==
    LET hits == {i \in DOMAIN results : kind_matches(item_kind, results[i].kind)}
    IN  IF hits = {} THEN NoResult
        ELSE results[CHOOSE i \in hits : \A j \in hits : i <= j]

\* save_metadata, lines 94-134: the CreateVideoMetadata built from the details
create_metadata(media_item_id, details) ==
    CASE details.kind = "Movie" ->
           [supported |-> TRUE,
            media_item_id |-> media_item_id,
            tmdb_id |-> and_then_parse(details.tmdb_id),
            release_date |-> details.release_date,
            runtime |-> details.runtime,
            genres |-> details.genres]
      [] details.kind = "Tv" ->
           [supported |-> TRUE,
            media_item_id |-> media_item_id,
            tmdb_id |-> and_then_parse(details.tmdb_id),
            release_date |-> details.first_air_date,
            runtime |-> IF details.episode_run_time = <<>> THEN <<>>
                        ELSE Some(Head(details.episode_run_time)),
            genres |-> details.genres]
      [] OTHER -> [supported |-> FALSE]

\* created_at and updated_at of an inserted row
InsertTimestamps(ts) == [created_at |-> ts, updated_at |-> ts]

\* the row INSERTed by VideoMetadata::upsert
MetadataRow(id, metadata, ts) ==
    [id |-> id,
     media_item_id |-> metadata.media_item_id,
     tmdb_id |-> metadata.tmdb_id,
     release_date |-> metadata.release_date,
     runtime |-> metadata.runtime,
     genres |-> genres_json(metadata.genres),
     created_at |-> InsertTimestamps(ts).created_at,
     updated_at |-> InsertTimestamps(ts).updated_at]

\* an upsert that inserts a row whether or not the item has one
upsert_insertAlways(rows, metadata, ts) ==
    rows \cup {MetadataRow(NextId(rows), metadata, ts)}

\* VideoMetadata::upsert: INSERT ... ON CONFLICT(media_item_id) DO UPDATE SET
\* every data column, updated_at = CURRENT_TIMESTAMP
upsert(rows, metadata, ts) ==
    LET old == {r \in rows : r.media_item_id = metadata.media_item_id}
    IN  IF old = {}
        THEN rows \cup {MetadataRow(NextId(rows), metadata, ts)}
        ELSE (rows \ old) \cup
             {[MetadataRow(r.id, metadata, ts) EXCEPT !.created_at = r.created_at]
                : r \in old}

\* video_metadata.media_item_id references a media item
MetadataConstraintsHold(media_item_id) ==
    \E m \in mediaItems : m.id = media_item_id

\* the statement of VideoMetadata::upsert is accepted by the store
UpsertAccepted(metadata) ==
    dbUp /\ MetadataConstraintsHold(metadata.media_item_id)

\* the video_metadata rows of one media item
MetadataOf(rows, media_item_id) == {v \in rows : v.media_item_id = media_item_id}

\* fetch_and_save_metadata returns: batch_fetch_metadata pushes the result
\* (line 181) and starts its sleep.  meta is the video_metadata table left.
PushResult(result, details, meta) ==
    LET item == batchItems[batchIdx]
    IN  /\ batchResults' = Append(batchResults, result)
        /\ apps' = Append(apps,
              [item |-> item.id,
               kind |-> item.media_type,
               known |-> \E m \in mediaItems : m.id = item.id,
               search |-> agSeen',
               picked |-> agPick.id,
               details |-> details,
               outcome |-> result.tag,
               rows |-> MetadataOf(meta, item.id)])
        /\ agPc' = "sleep"
        /\ agQuery' = NoQuery
        /\ agPick' = NoResult

\* batch_fetch_metadata is called; the first fetch_and_save_metadata parses
\* the title and calls search (lines 34-40)
BatchStart(items) ==
    /\ agPc = "idle"
    /\ batchItems' = items
    /\ batchResults' = <<>>
    /\ apps' = <<>>
    /\ IF items = <<>>
       THEN agPc' = "returned" /\ batchIdx' = 0 /\ agQuery' = NoQuery
       ELSE /\ agPc' = "search"
            /\ batchIdx' = 1
            /\ agQuery' = parse_title_and_year(items[1].title)
    /\ UNCHANGED <<now, agPick, agSeen, pipeVars>>

\* a fetch that writes the item's metadata row as soon as a result matched,
\* before get_details was called
AgentSearch_savesFirst(kinds) ==
    /\ agPc = "search"
    /\ agSeen' = kinds
    /\ LET item == batchItems[batchIdx]
           reply == manager_search(agQuery, kinds)
           pick == matching_result(item.media_type, reply.results)
       IN  IF ~reply.ok
           THEN /\ PushResult([tag |-> "SearchFailed"], NoDetails, videoMetadata)
                /\ UNCHANGED videoMetadata
           ELSE IF pick = NoResult
           THEN /\ PushResult([tag |-> "NoMatchingResults"], NoDetails, videoMetadata)
                /\ UNCHANGED videoMetadata
           ELSE /\ agPc' = "details"
                /\ agPick' = pick
                /\ videoMetadata' =
                      IF MetadataConstraintsHold(item.id)
                      THEN upsert(videoMetadata,
                                  [media_item_id |-> item.id, tmdb_id |-> <<>>,
                                   release_date |-> <<>>, runtime |-> <<>>,
                                   genres |-> <<>>], now)
                      ELSE videoMetadata
                /\ UNCHANGED <<batchResults, apps, agQuery>>
    /\ UNCHANGED <<now, batchItems, batchIdx>>
    /\ UNCHANGED <<fsVars, dbUp, libraryFolders, mediaItems, scanVars, scanHist>>

\* fetch_and_save_metadata, lines 37-59: the aggregator's search returns and
\* the matching result is looked for
AgentSearch(kinds) ==
    /\ agPc = "search"
    /\ agSeen' = kinds
    /\ LET item == batchItems[batchIdx]
           reply == manager_search(agQuery, kinds)
           pick == matching_result(item.media_type, reply.results)
       IN  IF ~reply.ok
           THEN PushResult([tag |-> "SearchFailed"], NoDetails, videoMetadata)
           ELSE IF pick = NoResult
           THEN PushResult([tag |-> "NoMatchingResults"], NoDetails, videoMetadata)
           ELSE /\ agPc' = "details"
                /\ agPick' = pick
                /\ UNCHANGED <<batchResults, apps, agQuery>>
    /\ UNCHANGED <<now, batchItems, batchIdx, pipeVars>>

\* a fetch that writes an empty row when get_details fails
AgentDetails_savesOnFailure(details) ==
    /\ agPc = "details"
    /\ details \in DetailsReplies(agPick)
    /\ agSeen' = agSeen
    /\ LET item == batchItems[batchIdx]
           metadata == create_metadata(item.id, details)
           blank == [media_item_id |-> item.id, tmdb_id |-> <<>>,
                     release_date |-> <<>>, runtime |-> <<>>, genres |-> <<>>]
       IN  IF details = DetailsFailed
           THEN /\ videoMetadata' = IF UpsertAccepted(blank)
                                    THEN upsert(videoMetadata, blank, now)
                                    ELSE videoMetadata
                /\ PushResult([tag |-> "DetailsFailed"], details, videoMetadata')
           ELSE IF ~metadata.supported
           THEN /\ PushResult([tag |-> "UnsupportedMediaType"], details,
                              videoMetadata)
                /\ UNCHANGED videoMetadata
           ELSE IF ~UpsertAccepted(metadata)
           THEN /\ PushResult([tag |-> "DatabaseError"], details, videoMetadata)
                /\ UNCHANGED videoMetadata
           ELSE /\ videoMetadata' = upsert(videoMetadata, metadata, now)
                /\ PushResult([tag |-> "Ok", media_item_id |-> item.id], details,
                              videoMetadata')
    /\ UNCHANGED <<now, batchItems, batchIdx>>
    /\ UNCHANGED <<fsVars, dbUp, libraryFolders, mediaItems, scanVars, scanHist>>

\* fetch_and_save_metadata, lines 68-85, and save_metadata: get_details
\* returns and the metadata is upserted
AgentDetails(details) ==
    /\ agPc = "details"
    /\ details \in DetailsReplies(agPick)
    /\ agSeen' = agSeen
    /\ LET item == batchItems[batchIdx]
           metadata == create_metadata(item.id, details)
       IN  IF details = DetailsFailed
           THEN /\ PushResult([tag |-> "DetailsFailed"], details, videoMetadata)
                /\ UNCHANGED videoMetadata
           ELSE IF ~metadata.supported
           THEN /\ PushResult([tag |-> "UnsupportedMediaType"], details, videoMetadata)
                /\ UNCHANGED videoMetadata
           ELSE IF ~UpsertAccepted(metadata)
           THEN /\ PushResult([tag |-> "DatabaseError"], details, videoMetadata)
                /\ UNCHANGED videoMetadata
           ELSE /\ videoMetadata' = upsert(videoMetadata, metadata, now)
                /\ PushResult([tag |-> "Ok", media_item_id |-> item.id], details,
                              videoMetadata')
    /\ UNCHANGED <<now, batchItems, batchIdx>>
    /\ UNCHANGED <<fsVars, dbUp, libraryFolders, mediaItems, scanVars, scanHist>>

\* a loop that gives up at the first failed item
NextItem_stopOnError ==
    /\ agPc = "sleep"
    /\ agSeen' = <<>>
    /\ IF batchIdx < Len(batchItems) /\ batchResults[batchIdx].tag = "Ok"
       THEN /\ batchIdx' = batchIdx + 1
            /\ agPc' = "search"
            /\ agQuery' = parse_title_and_year(batchItems[batchIdx + 1].title)
       ELSE /\ agPc' = "returned"
            /\ UNCHANGED <<batchIdx, agQuery>>
    /\ UNCHANGED <<now, batchItems, batchResults, agPick, apps, pipeVars>>

\* batch_fetch_metadata, lines 179-187: the 250 ms sleep is over; the loop
\* takes the next item, or the results are returned
NextItem ==
    /\ agPc = "sleep"
    /\ agSeen' = <<>>
    /\ IF batchIdx < Len(batchItems)
       THEN /\ batchIdx' = batchIdx + 1
            /\ agPc' = "search"
            /\ agQuery' = parse_title_and_year(batchItems[batchIdx + 1].title)
       ELSE /\ agPc' = "returned"
            /\ UNCHANGED <<batchIdx, agQuery>>
    /\ UNCHANGED <<now, batchItems, batchResults, agPick, apps, pipeVars>>

\* the caller of batch_fetch_metadata has consumed the results
BatchReturn ==
    /\ agPc = "returned"
    /\ agPc' = "idle"
    /\ batchItems' = <<>>
    /\ batchIdx' = 0
    /\ batchResults' = <<>>
    /\ apps' = <<>>
    /\ UNCHANGED <<now, agQuery, agPick, agSeen, pipeVars>>

\* a second passes on the store's clock
ClockTick ==
    /\ changes < MaxChanges
    /\ changes' = changes + 1
    /\ now' = now + 1
    /\ UNCHANGED <<agentVars, files, unreadable, dirState, storeVars, scanVars,
                   scanHist>>

\* ------------------------------- specification of the metadata agent
\* a scanned library: one folder of some kind with two media items, no
\* metadata yet
InitMeta ==
    /\ InitLimiter
    /\ config = [max_concurrent |-> 1, max_requests |-> 1, window_seconds |-> 1]
    /\ registered = {"tmdb"}
    /\ token = "none"
    /\ files = Files
    /\ unreadable = {}
    /\ dirState = [d \in Dirs |-> "dir"]
    /\ changes = 0
    /\ dbUp = TRUE
    /\ \E mt \in MediaTypes :
          LET folder == [id |-> 1, path |-> "/a", media_type |-> mt,
                         enabled |-> DefaultEnabled]
          IN  /\ libraryFolders = {folder}
              /\ mediaItems = {MediaItemRow(1, folder, FileArrival),
                               MediaItemRow(2, folder, FileHeat)}
    /\ videoMetadata = {}
    /\ InitScansIdle
    /\ InitAgentIdle
    /\ InitOrgIdle
    /\ InitReqIdle
    /\ InitAuxIdle

\* the batches that can be asked for: lists of media items of the store
Batches ==
    UNION {[1..n -> mediaItems] : n \in 0..MaxBatch}

NextMeta ==
    /\ \/ \E items \in Batches : BatchStart(items)
       \/ \E kinds \in SearchReplies : AgentSearch(kinds)
       \/ \E details \in DetailsReplies(agPick) : AgentDetails(details)
       \/ NextItem
       \/ BatchReturn
       \/ ClockTick
       \/ \E b \in BOOLEAN : SetDbUp(b) /\ UNCHANGED metaVars
       \/ \E id \in 1..MaxFolders : DeleteFolder(id) /\ UNCHANGED metaVars
    /\ UNCHANGED <<rlVars, adVars, orgVars, reqVars, auxVars>>

SpecMeta == InitMeta /\ [][NextMeta]_vars

\* the application the running batch has completed last
LastApp(history) == history[Len(history)]

KindName == [Movie |-> "movie", Tv |-> "tv", Anime |-> "anime"]

\* position of the first result of kind K in a result list, 0 when none
FirstOfKind(K, kinds) ==
    LET same == {i \in DOMAIN kinds : KindName[kinds[i]] = K}
    IN  IF same = {} THEN 0 ELSE CHOOSE i \in same : \A j \in same : i <= j

\* C9: for an item of kind K whose search returned results, details are
\* requested only for the first result of kind K; when no result has kind K
\* the outcome is NoMatchingResults, no details are requested and the step
\* writes no metadata row.
C9_SelectsByKind ==
    /\ [](/\ agPc = "details" =>
               /\ agPick.id # 0
               /\ agPick.id = FirstOfKind(batchItems[batchIdx].media_type, agSeen)
               /\ KindName[agPick.kind] = batchItems[batchIdx].media_type
          /\ \A i \in DOMAIN apps :
               LET a == apps[i]
                   first == FirstOfKind(a.kind, a.search)
               IN  a.search # <<>> =>
                     /\ (first = 0) <=> (a.outcome = "NoMatchingResults")
                     /\ first = 0 => a.details = NoDetails
                     /\ a.details # NoDetails => a.picked = first)
    /\ [][(agPc = "search" /\ agPc' = "sleep") => videoMetadata' = videoMetadata]_vars

\* an item without a result of its kind was passed over, and for the next
\* item the details of the second result are requested, the first result
\* being of another kind
C9_Witness ==
    /\ agPc = "details"
    /\ agSeen = <<"Tv", "Movie", "Movie">>
    /\ agPick = [kind |-> "Movie", id |-> 2]
    /\ \E i \in DOMAIN apps :
          /\ apps[i].outcome = "NoMatchingResults"
          /\ apps[i].search = <<"Anime", "Tv">>

\* C10: a batch over n items returns n results, the i-th being the outcome
\* of the i-th item, and the loop goes on to the next item after a failure.
C10_BatchCompletes ==
    /\ agPc \in {"search", "details"} => Len(batchResults) = batchIdx - 1
    /\ agPc = "sleep" => Len(batchResults) = batchIdx
    /\ agPc = "returned" =>
          /\ Len(batchResults) = Len(batchItems)
          /\ Len(apps) = Len(batchItems)
          /\ \A i \in DOMAIN batchItems :
                LET a == apps[i]
                    tag == batchResults[i].tag
                IN  /\ a.item = batchItems[i].id
                    /\ tag = "SearchFailed" <=> a.search = <<>>
                    /\ tag = "NoMatchingResults" <=>
                          (a.search # <<>> /\ FirstOfKind(a.kind, a.search) = 0)
                    /\ tag = "DetailsFailed" <=> a.details = DetailsFailed
                    /\ tag = "Ok" =>
                          /\ batchResults[i].media_item_id = batchItems[i].id
                          /\ a.rows # {}
                    /\ tag \in {"SearchFailed", "NoMatchingResults", "DetailsFailed",
                                "DatabaseError", "Ok"}

\* a returned batch of two items whose first item failed and whose second
\* item got its metadata
C10_Witness ==
    /\ agPc = "returned"
    /\ Len(batchItems) = 2
    /\ batchItems[1] # batchItems[2]
    /\ batchResults[1].tag = "DetailsFailed"
    /\ batchResults[2].tag = "Ok"

\* the data columns of a video_metadata row
DataColumns(r) ==
    [tmdb_id |-> r.tmdb_id, release_date |-> r.release_date,
     runtime |-> r.runtime, genres |-> r.genres]

\* applications i and j of the batch are two applications in a row to one
\* media item that was in the store both times
AppliedTwice(i, j) ==
    /\ i < j
    /\ apps[i].item = apps[j].item
    /\ \A k \in (i + 1)..(j - 1) : apps[k].item # apps[i].item
    /\ apps[i].known /\ apps[j].known

\* the providers returned the same search results and details both times
SameReplies(a, b) ==
    /\ a.search = b.search
    /\ a.details = b.details
    /\ a.details \notin {NoDetails, DetailsFailed}

\* one row after the second application, equal in its data columns to the
\* row after the first and not older
OneRowSameData(a, b) ==
    /\ Cardinality(a.rows) = 1
    /\ Cardinality(b.rows) = 1
    /\ \A r1 \in a.rows, r2 \in b.rows :
          /\ DataColumns(r2) = DataColumns(r1)
          /\ r2.updated_at >= r1.updated_at

RECURSIVE split_next(_, _)
split_next(s, ch) ==
    IF s = <<>> \/ Head(s) = ch THEN <<>>
    ELSE <<Head(s)>> \o split_next(Tail(s), ch)

\* the pieces between the occurrences of ch
RECURSIVE split(_, _)
split(s, ch) ==
    LET f == split_next(s, ch)
    IN IF Len(f) = Len(s) THEN <<f>>
       ELSE <<f>> \o split(SubSeq(s, Len(f) + 2, Len(s)), ch)

\* PathBuf::push: a text starting with the separator replaces the path, the
\* separators inside a text make several components
push(p, text) ==
    LET comps == SelectSeq(split(text, "/"), LAMBDA c : c # <<>>)
    IN IF text # <<>> /\ Head(text) = "/" THEN comps ELSE p \o comps

\* Display of a non-negative integer
RECURSIVE to_string(_)
to_string(n) ==
    IF n < 10 THEN <<Digits[n + 1]>>
    ELSE to_string(n \div 10) \o <<Digits[(n % 10) + 1]>>

\* the directory part of generate_target_path, by the kind of metadata
target_dir(root, metadata) ==
    LET unwrap_or(opt, default) == IF opt = <<>> THEN default ELSE opt[1]
        \* Option<Vec<String>>: .as_ref().and_then(|v| v.first())
        first(opt) == IF opt = <<>> \/ opt[1] = <<>> THEN <<>> ELSE <<opt[1][1]>>
        Unknown == <<"U", "n", "k", "n", "o", "w", "n">>
    IN
    CASE metadata.kind = "Video" ->
            LET title == unwrap_or(metadata.title, Unknown)
                year == IF metadata.release_date = <<>> THEN Unknown
                        ELSE split_next(metadata.release_date[1], "-")
                named == push(push(root, <<"V", "i", "d", "e", "o", "s">>),
                              title \o <<" ", "(">> \o year \o <<")">>)
            IN IF metadata.season_number = <<>> THEN named
               ELSE push(named, <<"S", "e", "a", "s", "o", "n", " ">> \o
                                to_string(metadata.season_number[1]))
      [] metadata.kind = "Book" ->
            LET author == unwrap_or(first(metadata.authors),
                              Unknown \o <<" ", "A", "u", "t", "h", "o", "r">>)
                named == push(push(root, <<"B", "o", "o", "k", "s">>), author)
            IN IF metadata.series = <<>> THEN named
               ELSE push(named, metadata.series[1])
      [] metadata.kind = "Music" ->
            LET artist == unwrap_or(first(metadata.artists),
                              Unknown \o <<" ", "A", "r", "t", "i", "s", "t">>)
                named == push(push(root, <<"M", "u", "s", "i", "c">>), artist)
            IN IF metadata.album = <<>> THEN named
               ELSE push(named, metadata.album[1])
      [] metadata.kind = "Comic" ->
            LET top == push(root, <<"C", "o", "m", "i", "c", "s">>)
                pub == IF metadata.publisher = <<>> THEN top
                       ELSE push(top, metadata.publisher[1])
            IN IF metadata.series = <<>> THEN pub
               ELSE IF metadata.volume = <<>> THEN push(pub, metadata.series[1])
               ELSE push(push(pub, metadata.series[1]),
                         <<"V", "o", "l", "u", "m", "e", " ">> \o
                         to_string(metadata.volume[1]))

\* generate_target_path: Some(path), or None for Err(InvalidPath)
generate_target_path(root, file_info, metadata) ==
    LET p == file_info.path
        \* Path::file_name
        file_name == IF p = <<>> THEN <<>> ELSE Some(p[Len(p)])
    IN IF file_name = <<>> THEN <<>>
       ELSE Some(push(target_dir(root, metadata), file_name[1]))

\* what metadata_provider.fetch_metadata returns when it answers; the call
\* takes no argument, every file gets the same metadata
VideoOf2016 ==
    [kind |-> "Video", title |-> Some(<<"T">>),
     release_date |-> Some(<<"2", "0", "1", "6", "-", "0", "1">>),
     season_number |-> <<>>]

\* ---- placement
\* an organize_file that moves by copying and leaves the source in place
organize_file_moveKeepsSource(d, method, source, target, deny) ==
    CASE method = "SoftLink" ->
            [fs |-> symlink(d, source, target, deny), error |-> "SymlinkError"]
      [] method = "HardLink" ->
            [fs |-> hard_link(d, source, target, deny), error |-> "HardLinkError"]
      [] method = "Copy" ->
            [fs |-> copy(d, source, target, deny), error |-> "CopyError"]
      [] method = "Move" ->
            [fs |-> copy(d, source, target, deny), error |-> "MoveError"]

\* organize_file: the filesystem call of the method and its error class
organize_file(d, method, source, target, deny) ==
    CASE method = "SoftLink" ->
            [fs |-> symlink(d, source, target, deny), error |-> "SymlinkError"]
      [] method = "HardLink" ->
            [fs |-> hard_link(d, source, target, deny), error |-> "HardLinkError"]
      [] method = "Copy" ->
            [fs |-> copy(d, source, target, deny), error |-> "CopyError"]
      [] method = "Move" ->
            [fs |-> rename(d, source, target, deny), error |-> "MoveError"]

\* process_file_with_retry, steps 4 and 5: the result and the filesystem
place(d, method, source, target, deny) ==
    LET made == create_dir_all(d, parent(target), deny)
        org == organize_file(made.disk, method, source, target, deny)
    IN IF ~made.ok THEN [error |-> "DirectoryCreationError", disk |-> made.disk]
       ELSE IF ~org.fs.ok THEN [error |-> org.error, disk |-> org.fs.disk]
       ELSE [error |-> "none", disk |-> org.fs.disk]

\* ---- scan_files
\* str::to_lowercase, on the letters A to Z
to_lowercase_chars(s) ==
    LET upper == <<"A", "B", "C", "D", "E", "F", "G", "H", "I", "J", "K", "L", "M",
                   "N", "O", "P", "Q", "R", "S", "T", "U", "V", "W", "X", "Y", "Z">>
        lower == <<"a", "b", "c", "d", "e", "f", "g", "h", "i", "j", "k", "l", "m",
                   "n", "o", "p", "q", "r", "s", "t", "u", "v", "w", "x", "y", "z">>
    IN [i \in DOMAIN s |->
           IF \E c \in 1..26 : upper[c] = s[i]
           THEN lower[CHOOSE c \in 1..26 : upper[c] = s[i]]
           ELSE s[i]]

\* Path::extension: the text after the last dot of the file name, if the
\* name has a dot that is not its first character
extension(p) ==
    LET name == p[Len(p)]
        dots == {i \in 2..Len(name) : name[i] = "."}
    IN IF p = <<>> \/ dots = {} THEN <<>>
       ELSE Some(SubSeq(name, MaxOf(dots) + 1, Len(name)))

\* get_default_extensions
get_default_extensions ==
    [Video |->
         {<<"m", "p", "4">>,
          <<"m", "k", "v">>,
          <<"a", "v", "i">>,
          <<"m", "o", "v">>,
          <<"w", "m", "v">>,
          <<"f", "l", "v">>,
          <<"w", "e", "b", "m">>,
          <<"m", "4", "v">>,
          <<"m", "p", "g">>,
          <<"m", "p", "e", "g">>,
          <<"3", "g", "p">>,
          <<"t", "s">>},
     Book |->
         {<<"e", "p", "u", "b">>,
          <<"m", "o", "b", "i">>,
          <<"p", "d", "f">>,
          <<"a", "z", "w">>,
          <<"a", "z", "w", "3">>,
          <<"t", "x", "t">>,
          <<"f", "b", "2">>,
          <<"l", "i", "t">>,
          <<"p", "d", "b">>},
     Music |->
         {<<"m", "p", "3">>,
          <<"f", "l", "a", "c">>,
          <<"w", "a", "v">>,
          <<"a", "a", "c">>,
          <<"o", "g", "g">>,
          <<"m", "4", "a">>,
          <<"w", "m", "a">>,
          <<"o", "p", "u", "s">>,
          <<"a", "i", "f", "f">>},
     Comic |->
         {<<"c", "b", "z">>,
          <<"c", "b", "r">>,
          <<"c", "b", "7">>,
          <<"c", "b", "t">>,
          <<"p", "d", "f">>}]

\* detect_media_type: the first media type, in the iteration order of the
\* HashMap, whose list has the extension; the order is not fixed, so every
\* type that has it may be the one returned
detect_media_type(ext) == {t \in DOMAIN get_default_extensions : ext \in get_default_extensions[t]}

\* scan_files: the FileInfos of the media files under source_path
scan_files(d, source_path) ==
    {f \in OrgFiles :
        /\ Len(f.path) > Len(source_path)
        /\ SubSeq(f.path, 1, Len(source_path)) = source_path
        /\ Stat(d, f.path).kind = "file"
        /\ extension(f.path) # <<>>
        /\ f.media_type \in detect_media_type(to_lowercase_chars(extension(f.path)[1]))}


\* ---- process_single_file
MaxRuns == 2

\* a backoff of one second whatever the attempt
backoff_constant(attempt) == 1000

\* the milliseconds slept after a failed attempt: 1000 * attempt
backoff(attempt) == 1000 * attempt

\* a process_single_file that does not look at dry_run
first_step_ignoresDryRun(s) ==
    IF s.retry_count = 0 THEN "panic" ELSE "attempt"

\* what process_single_file does on entry: return at once in dry-run mode,
\* unwrap an empty last_error when the loop has no iteration, else attempt
first_step(s) ==
    IF s.dry_run THEN "simulate"
    ELSE IF s.retry_count = 0 THEN "panic"
    ELSE "attempt"

\* a step 3 that never skips
skips_never(s, d, target) == FALSE

\* process_file_with_retry, step 3: skip_existing && target_path.exists()
skips(s, d, target) == s.skip_existing /\ exists(d, target)

\* a ProgressUpdate on the channel of run()
ProgressUpdate(type, f, ok) == [type |-> type, file |-> f.path, success |-> ok]

\* process_single_file returns res (or its task panics), leaving the
\* filesystem d; a task spawned by run() reports the completion and drops
\* its permit
Returned(f, rec, res, d, rx, pm) ==
    /\ task' = [task EXCEPT ![f] =
            [rec EXCEPT !.pc = "done", !.result = res, !.runs = @ + 1,
                        !.first = IF rec.first.done THEN rec.first
                                  ELSE [done |-> TRUE, result |-> res, disk |-> d]]]
    /\ progress_rx' = IF rec.viaRun /\ res # "panic"
                      THEN Append(rx, ProgressUpdate("FileCompleted", f, res = "Ok")) ELSE rx
    /\ permits' = IF rec.viaRun THEN pm + 1 ELSE pm

\* entry of process_single_file
Begin(f, viaRun, rx, pm) ==
    LET rec == [task[f] EXCEPT !.viaRun = viaRun, !.attempt = 0, !.target = <<>>,
                               !.last_error = "none", !.result = "none",
                               !.log = <<>>]
        step == first_step(scraper)
    IN /\ IF step = "simulate" THEN Returned(f, rec, "Ok", disk, rx, pm)
          ELSE IF step = "panic" THEN Returned(f, rec, "panic", disk, rx, pm)
          ELSE /\ task' = [task EXCEPT ![f] = [rec EXCEPT !.pc = "attempt",
                                                          !.attempt = 1]]
               /\ progress_rx' = rx
               /\ permits' = pm
       /\ UNCHANGED <<scraper, orgFsVars, changes, runPc, runFiles, progress,
                      runResult>>

\* a caller invokes process_single_file on a FileInfo, outside of run()
CallProcess(f) ==
    /\ runPc # "running"
    /\ task[f].pc \in {"idle", "done"}
    /\ task[f].runs < MaxRuns
    /\ Begin(f, FALSE, progress_rx, permits)

\* process_file_chunk: the task spawned for the file gets its permit, sends
\* FileStarted and calls process_single_file
TaskAcquire(f) ==
    /\ task[f].pc = "spawned"
    /\ permits > 0
    /\ Begin(f, TRUE, Append(progress_rx, ProgressUpdate("FileStarted", f, FALSE)), permits - 1)

\* an attempt failed with error e: sleep and go on, or give up with e
Failed(f, rec, e, d) ==
    IF rec.attempt < scraper.retry_count
    THEN /\ task' = [task EXCEPT ![f] =
                [rec EXCEPT !.pc = "sleep", !.last_error = e,
                            !.log = Append(@, [error |-> e,
                                               wait |-> backoff(rec.attempt)])]]
         /\ UNCHANGED <<progress_rx, permits>>
    ELSE Returned(f, [rec EXCEPT !.last_error = e,
                                 !.log = Append(@, [error |-> e, wait |-> 0])],
                  e, d, progress_rx, permits)

\* process_file_with_retry, steps 1 to 3: metadata, target path, skip check
Attempt(f) ==
    LET rec == task[f]
        tp == generate_target_path(scraper.target_path, f, VideoOf2016)
    IN /\ rec.pc = "attempt"
       /\ IF ~fetchUp THEN Failed(f, rec, "MetadataFetchError", disk)
          ELSE IF tp = <<>> THEN Failed(f, rec, "InvalidPath", disk)
          ELSE IF skips(scraper, disk, tp[1])
          THEN Returned(f, [rec EXCEPT !.target = tp[1],
                                       !.log = Append(@, [error |-> "none",
                                                          wait |-> 0])],
                        "Ok", disk, progress_rx, permits)
          ELSE /\ task' = [task EXCEPT ![f] = [rec EXCEPT !.pc = "place",
                                                          !.target = tp[1]]]
               /\ UNCHANGED <<progress_rx, permits>>
       /\ UNCHANGED <<scraper, orgFsVars, changes, runPc, runFiles, progress,
                      runResult>>

\* process_file_with_retry, steps 4 and 5: create_dir_all and organize_file
Place(f) ==
    LET rec == task[f]
        r == place(disk, scraper.organize_method, f.path, rec.target, denied)
    IN /\ rec.pc = "place"
       /\ disk' = r.disk
       /\ IF r.error = "none"
          THEN Returned(f, [rec EXCEPT !.log = Append(@, [error |-> "none",
                                                          wait |-> 0])],
                        "Ok", r.disk, progress_rx, permits)
          ELSE Failed(f, rec, r.error, r.disk)
       /\ UNCHANGED <<scraper, fetchUp, denied, changes, runPc, runFiles,
                      progress, runResult>>

\* the sleep after a failed attempt is over: next iteration of the loop
WakeTask(f) ==
    /\ task[f].pc = "sleep"
    /\ task' = [task EXCEPT ![f] = [@ EXCEPT !.pc = "attempt",
                                             !.attempt = @ + 1]]
    /\ UNCHANGED <<scraper, orgFsVars, changes, runVars>>

\* ---- run
\* run: scan_files, then one task per file behind the semaphore
RunStart ==
    LET found == scan_files(disk, scraper.source_path)
    IN /\ runPc \in {"idle", "returned"}
       /\ \A f \in OrgFiles : task[f].pc \in {"idle", "done"}
       /\ \A f \in OrgFiles : task[f].runs < MaxRuns
       /\ IF ~exists(disk, scraper.source_path)
          THEN /\ runPc' = "returned"
               /\ runResult' = [kind |-> "Err", error |-> "FileNotFound"]
               /\ UNCHANGED <<runFiles, permits, progress_rx, progress, task>>
          ELSE IF found = {}
          THEN /\ runPc' = "returned"
               /\ runResult' = [kind |-> "Ok", progress |-> ZeroProgress]
               /\ UNCHANGED <<runFiles, permits, progress_rx, progress, task>>
          ELSE /\ runPc' = "running"
               /\ runResult' = [kind |-> "none"]
               /\ runFiles' = found
               /\ permits' = scraper.max_concurrent_tasks
               /\ progress_rx' = <<>>
               /\ progress' = [ZeroProgress EXCEPT
                                  !.total_files = Cardinality(found)]
               /\ task' = [f \in OrgFiles |->
                             IF f \in found
                             THEN [task[f] EXCEPT !.pc = "spawned",
                                                  !.viaRun = TRUE]
                             ELSE task[f]]
       /\ UNCHANGED <<scraper, orgFsVars, changes>>

\* a progress task that counts a FileStarted update as a processed file
ProgressRecv_countsStarts ==
    /\ progress_rx # <<>>
    /\ progress_rx' = Tail(progress_rx)
    /\ progress' =
          IF Head(progress_rx).type = "FileStarted"
          THEN [progress EXCEPT !.processed_files = @ + 1]
          ELSE [progress EXCEPT
                   !.processed_files = @ + 1,
                   !.successful_files =
                       IF Head(progress_rx).success THEN @ + 1 ELSE @,
                   !.failed_files =
                       IF Head(progress_rx).success THEN @ ELSE @ + 1]
    /\ UNCHANGED <<scraper, orgFsVars, changes, task, runPc, runFiles, permits,
                   runResult>>

\* the progress task receives one ProgressUpdate
ProgressRecv ==
    /\ progress_rx # <<>>
    /\ progress_rx' = Tail(progress_rx)
    /\ progress' =
          IF Head(progress_rx).type = "FileStarted" THEN progress
          ELSE [progress EXCEPT
                   !.processed_files = @ + 1,
                   !.successful_files =
                       IF Head(progress_rx).success THEN @ + 1 ELSE @,
                   !.failed_files =
                       IF Head(progress_rx).success THEN @ ELSE @ + 1]
    /\ UNCHANGED <<scraper, orgFsVars, changes, task, runPc, runFiles, permits,
                   runResult>>

\* every task was joined and the progress task ended: run returns
RunReturn ==
    /\ runPc = "running"
    /\ \A f \in runFiles : task[f].pc = "done"
    /\ progress_rx = <<>>
    /\ runPc' = "returned"
    /\ runResult' = [kind |-> "Ok", progress |-> progress]
    /\ UNCHANGED <<scraper, orgFsVars, changes, task, runFiles, permits,
                   progress_rx, progress>>

\* ---- the environment of the organizer
\* the metadata provider goes down or comes back
SetFetchUp(b) ==
    /\ changes < MaxChanges
    /\ fetchUp # b
    /\ fetchUp' = b
    /\ changes' = changes + 1
    /\ UNCHANGED <<scraper, disk, denied, task, runVars>>

\* the filesystem becomes read-only or writable again
SetDenied(b) ==
    /\ changes < MaxChanges
    /\ denied # b
    /\ denied' = b
    /\ changes' = changes + 1
    /\ UNCHANGED <<scraper, fetchUp, disk, task, runVars>>

\* another program deletes a source file
RemoveSource(f) ==
    /\ changes < MaxChanges
    /\ Node(disk, f.path).kind = "file"
    /\ disk' = disk \ {Node(disk, f.path)}
    /\ changes' = changes + 1
    /\ UNCHANGED <<scraper, fetchUp, denied, task, runVars>>

\* the scrapers a caller may build: AyiahScraper::new and the with_ setters
Scrapers ==
    {[NewScraper(m) EXCEPT !.retry_count = k, !.skip_existing = se,
                           !.dry_run = dr, !.max_concurrent_tasks = mc] :
        m \in OrganizeMethods, k \in {0, 1, 3}, se \in BOOLEAN,
        dr \in BOOLEAN, mc \in {1, 2}}

InitOrg ==
    /\ InitLimiter
    /\ config = [max_concurrent |-> 1, max_requests |-> 1, window_seconds |-> 1]
    /\ registered = {}
    /\ token = "none"
    /\ files = Files
    /\ unreadable = {}
    /\ dirState = [d \in Dirs |-> "dir"]
    /\ changes = 0
    /\ InitStoreAndScans
    /\ InitAgentIdle
    /\ scraper \in Scrapers
    /\ fetchUp \in BOOLEAN
    /\ InitReqIdle
    /\ InitAuxIdle
    /\ InitTasksIdle

NextOrg ==
    /\ \/ \E f \in OrgFiles : CallProcess(f)
       \/ \E f \in OrgFiles : TaskAcquire(f)
       \/ \E f \in OrgFiles : Attempt(f)
       \/ \E f \in OrgFiles : Place(f)
       \/ \E f \in OrgFiles : WakeTask(f)
       \/ RunStart
       \/ ProgressRecv
       \/ RunReturn
       \/ \E b \in BOOLEAN : SetFetchUp(b)
       \/ \E b \in BOOLEAN : SetDenied(b)
       \/ \E f \in OrgFiles : RemoveSource(f)
    /\ UNCHANGED <<rlVars, adVars, metaVars, files, unreadable, dirState,
                   storeVars, scanVars, scanHist, reqVars, auxVars>>

SpecOrg == InitOrg /\ [][NextOrg]_vars

\* the attempts of a finished or running process_single_file, as logged
Attempts(f) == task[f].log

\* C12: in non-dry-run mode with retry_count = k >= 1, process_single_file
\* makes at most k attempts, every attempt before the last one made failed
\* and was followed by a sleep of n x 1000 ms (n its number), nothing is
\* slept after attempt k, a successful attempt ends the call with success,
\* and after k failed attempts the call returns the error of attempt k.
C12_RetryLoop ==
    \A f \in OrgFiles :
        LET k == scraper.retry_count
            log == Attempts(f)
            n == Len(log)
        IN (~scraper.dry_run /\ k >= 1 /\ task[f].pc \notin {"idle", "spawned"})
           => /\ n <= k
              /\ task[f].attempt <= k
              /\ \A i \in 1..(n - 1) :
                    log[i].error # "none" /\ log[i].wait = i * 1000
              /\ task[f].pc = "sleep"
                    => n < k /\ log[n].error # "none" /\ log[n].wait = n * 1000
              /\ task[f].pc \in {"attempt", "place"} => n = task[f].attempt - 1
              /\ (n >= 1 /\ log[n].error = "none")
                    => task[f].pc = "done" /\ task[f].result = "Ok"
              /\ task[f].pc = "done"
                    => /\ n >= 1
                       /\ log[n].wait = 0
                       /\ task[f].result = (IF log[n].error = "none" THEN "Ok"
                                             ELSE log[n].error)
                       /\ task[f].result # "Ok" => n = k

\* one call gave up after three failed attempts and sleeps of 1 s and 2 s,
\* another succeeded at its second attempt after a sleep of 1 s
C12_Witness ==
    /\ scraper.retry_count = 3
    /\ ~scraper.dry_run
    /\ \E f, g \in OrgFiles :
          /\ task[f].pc = "done"
          /\ task[f].result \in {"SymlinkError", "HardLinkError"}
          /\ Len(task[f].log) = 3
          /\ task[f].log[2].wait = 2000
          /\ task[g].pc = "done"
          /\ task[g].result = "Ok"
          /\ Len(task[g].log) = 2
          /\ task[g].log[1].wait = 1000

\* the path the file is to be placed at
TargetOf(f) == generate_target_path(scraper.target_path, f, VideoOf2016)[1]

\* this step ends a call of process_single_file on f with success
ReturnsOk(f) ==
    /\ task[f].pc # "done"
    /\ task'[f].pc = "done"
    /\ task'[f].result = "Ok"

\* after this step the target of f is the placement of f by the method: a
\* symbolic link naming the source, another name of the source's inode, a
\* file of its own with the source's content, or the source entry itself,
\* gone from the source path
PlacedBy(method, f) ==
    LET src == Node(disk, f.path)
        t == Node(disk', TargetOf(f))
    IN CASE method = "SoftLink" -> t.kind = "symlink" /\ t.to = f.path
         [] method = "HardLink" ->
                /\ src.kind = "file"
                /\ t = [src EXCEPT !.path = TargetOf(f)]
                /\ Node(disk', f.path) = src
         [] method = "Copy" ->
                /\ src.kind = "file"
                /\ t.kind = "file" /\ t.data = src.data /\ t.ino # src.ino
                /\ Node(disk', f.path) = src
         [] method = "Move" ->
                /\ src.kind = "file"
                /\ t = [src EXCEPT !.path = TargetOf(f)]
                /\ Node(disk', f.path).kind = "absent"

\* C13 as stated: with dry_run = false, every step that returns success for
\* a source file leaves the target path as the placement of that source by
\* the configured method.
C13_SuccessMeansPlaced ==
    [][\A f \in OrgFiles :
          (~scraper.dry_run /\ ReturnsOk(f))
          => PlacedBy(scraper.organize_method, f)]_vars

\* C13, amended: with dry_run = false, every step that returns success for a
\* source file leaves an entry at the target path; it is the placement of
\* that source by the configured method unless skip_existing is set and the
\* target path existed already, and then the filesystem is left as it was.
C13_SuccessMeansPlacedOrSkipped ==
    [][\A f \in OrgFiles :
          (~scraper.dry_run /\ ReturnsOk(f))
          => /\ Node(disk', TargetOf(f)).kind # "absent"
             /\ \/ PlacedBy(scraper.organize_method, f)
                \/ /\ scraper.skip_existing
                   /\ exists(disk, TargetOf(f))
                   /\ disk' = disk]_vars

\* both files were processed with success under skip_existing: the first
\* was linked, the second found the target there and was skipped
C13_Witness ==
    /\ ~scraper.dry_run
    /\ scraper.skip_existing
    /\ scraper.organize_method = "SoftLink"
    /\ task[SrcA].pc = "done" /\ task[SrcA].result = "Ok"
    /\ task[SrcB].pc = "done" /\ task[SrcB].result = "Ok"
    /\ Node(disk, TargetOf(SrcB)).kind = "symlink"
    /\ Node(disk, TargetOf(SrcB)).to = SrcA.path

\* C14: with dry_run = true no step of run() or process_single_file changes
\* the filesystem (no entry and no directory is created, replaced or
\* removed), every call of process_single_file returns success, and the
\* progress run() returns counts every scanned file as successful.
C14_DryRunTouchesNothing ==
    /\ [][(scraper.dry_run /\ changes' = changes) => disk' = disk]_vars
    /\ [](scraper.dry_run
           => /\ \A f \in OrgFiles :
                    task[f].pc = "done" => task[f].result = "Ok"
              /\ (runPc = "returned" /\ runResult.kind = "Ok")
                    => /\ runResult.progress.successful_files =
                             runResult.progress.total_files
                       /\ runResult.progress.failed_files = 0)

\* a dry run over both files returned: two successes, nothing on disk changed
C14_Witness ==
    /\ scraper.dry_run
    /\ runPc = "returned"
    /\ runResult.kind = "Ok"
    /\ runResult.progress.total_files = 2
    /\ runResult.progress.successful_files = 2
    /\ disk = Disk0

\* C15: with skip_existing = true, an attempt that has its metadata and
\* finds the target path existing (Path::exists) returns success, and that
\* step leaves the whole filesystem as it was: source, target and every
\* directory.
C15_SkipExistingTouchesNothing ==
    [][\A f \in OrgFiles :
          (/\ scraper.skip_existing
           /\ task[f].pc = "attempt"
           /\ task'[f] # task[f]
           /\ fetchUp
           /\ exists(disk, TargetOf(f)))
          => /\ task'[f].pc = "done"
             /\ task'[f].result = "Ok"
             /\ disk' = disk]_vars

\* the first file was copied; the second, of the same name, was skipped at
\* its first attempt and the copy of the first is still the target
C15_Witness ==
    /\ scraper.skip_existing
    /\ scraper.organize_method = "Copy"
    /\ task[SrcA].pc = "done" /\ task[SrcA].result = "Ok"
    /\ task[SrcB].pc = "done" /\ task[SrcB].result = "Ok"
    /\ Len(task[SrcB].log) = 1
    /\ Node(disk, TargetOf(SrcB)).kind = "file"
    /\ Node(disk, TargetOf(SrcB)).data = <<"A">>
    /\ Node(disk, SrcB.path).data = <<"B">>

\* f was processed twice, the first time with success, and nothing else
\* happened: no outside change and no processing of another file
ProcessedTwiceAlone(f) ==
    /\ ~scraper.dry_run
    /\ changes = 0
    /\ \A g \in OrgFiles \ {f} : task[g].pc = "idle" /\ task[g].runs = 0
    /\ task[f].pc = "done"
    /\ task[f].runs = 2
    /\ task[f].first.result = "Ok"

\* C16: for each of the four methods and either setting of skip_existing,
\* processing the same source file a second time succeeds and leaves the
\* filesystem in the state it had after the first time.
C16_PlacementIdempotent ==
    \A f \in OrgFiles :
        ProcessedTwiceAlone(f)
        => task[f].result = "Ok" /\ disk = task[f].first.disk

\* ------------------------------- scan requests and their metadata tasks
\* the rows a SELECT returns, in any order the store may produce
Orderings(rows) ==
    {q \in [1..Cardinality(rows) -> rows] :
        \A i, j \in DOMAIN q : q[i] = q[j] => i = j}

\* a query that selects every item of the folder, with a row or without
items_without_metadata_everyItem(folder_id) ==
    {m \in mediaItems : m.library_folder_id = folder_id}

\* scan_folder, lines 175-178: SELECT * FROM media_items WHERE
\* library_folder_id = ? AND id NOT IN (SELECT media_item_id FROM video_metadata)
items_without_metadata(folder_id) ==
    {m \in mediaItems :
        /\ m.library_folder_id = folder_id
        /\ \A v \in videoMetadata : v.media_item_id # m.id}

\* a fetch_and_save_metadata whose upsert the store never refuses
fetch_and_save_metadata_savesUnchecked(item, kinds, details) ==
    LET reply == manager_search(parse_title_and_year(item.title), kinds)
        pick == matching_result(item.media_type, reply.results)
        metadata == create_metadata(item.id, details)
    IN  IF ~reply.ok \/ pick = NoResult \/ details = DetailsFailed
        THEN videoMetadata
        ELSE IF ~metadata.supported
        THEN videoMetadata
        ELSE upsert(videoMetadata, metadata, now)

\* fetch_and_save_metadata as one call: the video_metadata table it leaves
\* when the search returns kinds and get_details returns details
fetch_and_save_metadata(item, kinds, details) ==
    LET reply == manager_search(parse_title_and_year(item.title), kinds)
        pick == matching_result(item.media_type, reply.results)
        metadata == create_metadata(item.id, details)
    IN  IF ~reply.ok \/ pick = NoResult \/ details = DetailsFailed
        THEN videoMetadata
        ELSE IF ~metadata.supported \/ ~UpsertAccepted(metadata)
        THEN videoMetadata
        ELSE upsert(videoMetadata, metadata, now)

\* the replies get_details can give to the call on item after that search
DetailsAfter(item, kinds) ==
    LET reply == manager_search(parse_title_and_year(item.title), kinds)
        pick == matching_result(item.media_type, reply.results)
    IN  IF ~reply.ok \/ pick = NoResult THEN {NoDetails} ELSE DetailsReplies(pick)

\* scan_folder, lines 156-205, with a metadata agent in the context: a failed
\* scan is answered with status 500; after a successful one the metadata task
\* of the request is spawned and the response is sent
ScanRespond(s) ==
    /\ ScanReturn(s)
    /\ IF scanErr[s] # "none"
       THEN UNCHANGED mdTask
       ELSE /\ \E u \in MetadataTasks : mdTask[u].pc = "free"
            /\ LET t == CHOOSE u \in MetadataTasks : mdTask[u].pc = "free"
               IN  mdTask' = [mdTask EXCEPT ![t] =
                      [FreeTask EXCEPT !.pc = "query",
                                       !.folder_id = scanFolder[s].id]]

\* the spawned task, lines 173-189: the items of the folder without metadata
\* are selected and batch_fetch_metadata takes the first of them
TaskQuery(t) ==
    /\ mdTask[t].pc = "query"
    /\ IF ~dbUp
       THEN mdTask' = [mdTask EXCEPT ![t] = FreeTask]
       ELSE \E items \in Orderings(items_without_metadata(mdTask[t].folder_id)) :
               mdTask' = [mdTask EXCEPT ![t] =
                  IF items = <<>> THEN FreeTask
                  ELSE [@ EXCEPT !.pc = "fetch", !.items = items, !.idx = 1]]
    /\ UNCHANGED <<pipeVars>>

\* batch_fetch_metadata, lines 180-181: fetch_and_save_metadata on the
\* current item returns and the loop starts its sleep
TaskFetch(t, kinds, details) ==
    /\ mdTask[t].pc = "fetch"
    /\ LET item == mdTask[t].items[mdTask[t].idx]
       IN  /\ details \in DetailsAfter(item, kinds)
           /\ videoMetadata' = fetch_and_save_metadata(item, kinds, details)
    /\ mdTask' = [mdTask EXCEPT ![t].pc = "sleep"]
    /\ UNCHANGED <<fsVars, dbUp, libraryFolders, mediaItems, scanVars, scanHist>>

\* batch_fetch_metadata, lines 179-187: the sleep is over; the next item is
\* fetched, or the task ends
TaskNext(t) ==
    /\ mdTask[t].pc = "sleep"
    /\ mdTask' = [mdTask EXCEPT ![t] =
          IF @.idx < Len(@.items)
          THEN [@ EXCEPT !.pc = "fetch", !.idx = @ + 1]
          ELSE FreeTask]
    /\ UNCHANGED <<pipeVars>>

\* the details a spawned task is answered with: an error, or the complete
\* metadata of a movie, of a series or of an anime
SpawnDetails ==
    {DetailsFailed, NoDetails} \cup AnimeDetails \cup
    {d \in MovieDetails \cup TvDetails : d.genres # <<>>}

\* a scanned video folder with two files; scan requests for it may overlap
InitSpawn ==
    /\ InitLimiter
    /\ config = [max_concurrent |-> 1, max_requests |-> 1, window_seconds |-> 1]
    /\ registered = {"tmdb"}
    /\ token = "none"
    /\ files = {FileArrival, FileHeat}
    /\ unreadable = {}
    /\ dirState = [d \in Dirs |-> "dir"]
    /\ changes = 0
    /\ dbUp = TRUE
    /\ LET folder == [id |-> 1, path |-> "/a", media_type |-> "movie",
                       enabled |-> DefaultEnabled]
       IN  /\ libraryFolders = {folder}
           /\ mediaItems = {MediaItemRow(1, folder, FileArrival)}
    /\ videoMetadata = {}
    /\ InitScansIdle
    /\ InitAgentIdle
    /\ InitOrgIdle
    /\ InitReqIdle
    /\ InitAuxIdle

NextSpawn ==
    /\ \/ \E s \in Scanners : ScanStart(s, 1) /\ UNCHANGED mdTask
       \/ \E s \in Scanners, f \in Files : ScanVisit(s, f) /\ UNCHANGED mdTask
       \/ \E s \in Scanners : ScanCreate(s) /\ UNCHANGED mdTask
       \/ \E s \in Scanners : ScanFinish(s) /\ UNCHANGED mdTask
       \/ \E s \in Scanners : ScanRespond(s)
       \/ \E t \in MetadataTasks : TaskQuery(t)
       \/ \E t \in MetadataTasks, kinds \in SearchReplies, details \in SpawnDetails :
             TaskFetch(t, kinds, details)
       \/ \E t \in MetadataTasks : TaskNext(t)
    /\ UNCHANGED <<rlVars, adVars, metaVars, orgVars, scanAll, auxVars>>

SpecSpawn == InitSpawn /\ [][NextSpawn]_vars

\* the spawned tasks that are inside fetch_and_save_metadata for an item of
\* the folder
Fetching(folder_id) ==
    {t \in MetadataTasks : mdTask[t].pc = "fetch" /\ mdTask[t].folder_id = folder_id}

\* C17: metadata fetches for one library folder are serialized: at no time
\* are two executions of fetch_and_save_metadata for items of the same folder
\* in progress, also when scan requests for the folder overlap
C17_FetchesSerializedPerFolder ==
    \A id \in 1..MaxFolders : Cardinality(Fetching(id)) <= 1

\* ---------------------------------------------------- scan_all_libraries
\* the scan that scan_all_libraries runs, beside a single-folder request
AllScanner == "s2"

\* LibraryFolder::list_enabled: SELECT * FROM library_folders WHERE
\* enabled = 1 ORDER BY created_at DESC.  The store's clock has a resolution
\* of one second and folders made in the same second come in any order; the
\* folder rows here carry no created_at, so every order is a possible answer
list_enabled(rows) == Orderings({r \in rows : r.enabled})

\* scan_all_libraries, lines 140-144: the enabled folders are listed; a
\* failing query ends the call with DatabaseError
ScanAllStart ==
    /\ scanAll.pc = "idle"
    /\ IF ~dbUp
       THEN scanAll' = [IdleScanAll EXCEPT !.pc = "failed"]
       ELSE \E folders \in list_enabled(libraryFolders) :
               scanAll' = [IdleScanAll EXCEPT
                              !.pc = "loop",
                              !.todo = folders,
                              !.listed = {r \in libraryFolders : r.enabled}]
    /\ UNCHANGED pipeVars

\* scan_all_libraries, lines 148-149: the loop calls scan_library_folder on
\* the next folder of the list
ScanAllNext ==
    /\ scanAll.pc = "loop"
    /\ scanAll.todo # <<>>
    /\ BeginScan(AllScanner, Head(scanAll.todo))
    /\ scanAll' = [scanAll EXCEPT !.pc = "scanning",
                                  !.seen = dirState[Head(scanAll.todo).path]]

\* the entry pushed for a folder whose scan returned an error
FailedEntry == [total_files |-> 0, new_items |-> 0, existing_items |-> 0, errors |-> 1]

\* a loop that returns at the first folder whose scan fails
ScanAllCollect_abortOnError ==
    /\ scanAll.pc = "scanning"
    /\ ScanReturn(AllScanner)
    /\ scanAll' =
          IF scanErr[AllScanner] = "none"
          THEN [scanAll EXCEPT
                   !.pc = "loop",
                   !.todo = Tail(@),
                   !.results = Append(@, [folder |-> Head(scanAll.todo),
                                          result |-> scanResult[AllScanner],
                                          path_state |-> scanAll.seen])]
          ELSE [scanAll EXCEPT !.pc = "loop", !.todo = <<>>]

\* scan_all_libraries, lines 149-165: the scan of the folder returned; its
\* result, or an entry with errors = 1, is pushed and the loop goes on
ScanAllCollect ==
    /\ scanAll.pc = "scanning"
    /\ ScanReturn(AllScanner)
    /\ scanAll' = [scanAll EXCEPT
          !.pc = "loop",
          !.todo = Tail(@),
          !.results = Append(@,
              [folder |-> Head(scanAll.todo),
               result |-> IF scanErr[AllScanner] = "none"
                          THEN scanResult[AllScanner]
                          ELSE FailedEntry,
               path_state |-> scanAll.seen])]

\* scan_all_libraries, line 167: Ok(results)
ScanAllReturn ==
    /\ scanAll.pc = "loop"
    /\ scanAll.todo = <<>>
    /\ scanAll' = [scanAll EXCEPT !.pc = "returned"]
    /\ UNCHANGED pipeVars

\* scan_all_folders, lines 213-233: the response is sent
ScanAllRespond ==
    /\ scanAll.pc \in {"returned", "failed"}
    /\ scanAll' = IdleScanAll
    /\ UNCHANGED pipeVars

\* two folders registered earlier, each enabled or not; the path of a folder
\* may have been removed or replaced by a file since
InitScanAll ==
    /\ InitLimiter
    /\ config = [max_concurrent |-> 1, max_requests |-> 1, window_seconds |-> 1]
    /\ registered = {"tmdb"}
    /\ token = "none"
    /\ dirState \in [Dirs -> {"dir", "file", "missing"}]
    /\ files = {f \in {FileArrival, FileNotes, FileComic} : dirState[f.dir] = "dir"}
    /\ unreadable = {}
    /\ changes = 0
    /\ dbUp = TRUE
    /\ \E ea, eb \in BOOLEAN :
          libraryFolders =
             {[id |-> 1, path |-> "/a", media_type |-> "movie", enabled |-> ea],
              [id |-> 2, path |-> "/b", media_type |-> "comic", enabled |-> eb]}
    /\ mediaItems = {}
    /\ videoMetadata = {}
    /\ InitScansIdle
    /\ InitAgentIdle
    /\ InitOrgIdle
    /\ InitReqIdle
    /\ InitAuxIdle

NextScanAll ==
    /\ \/ \E id \in 1..MaxFolders, en \in BOOLEAN : UpdateFolder(id, en) /\ UNCHANGED scanAll
       \/ \E d \in Dirs, st \in {"dir", "file", "missing"} : SetDir(d, st) /\ UNCHANGED scanAll
       \/ \E b \in BOOLEAN : SetDbUp(b) /\ UNCHANGED scanAll
       \/ \E id \in 1..MaxFolders : ScanStart(MainScanner, id) /\ UNCHANGED scanAll
       \/ \E s \in Scanners, f \in Files : ScanVisit(s, f) /\ UNCHANGED scanAll
       \/ \E s \in Scanners : ScanCreate(s) /\ UNCHANGED scanAll
       \/ \E s \in Scanners : ScanFinish(s) /\ UNCHANGED scanAll
       \/ ScanReturn(MainScanner) /\ UNCHANGED scanAll
       \/ ScanAllStart
       \/ ScanAllNext
       \/ ScanAllCollect
       \/ ScanAllReturn
       \/ ScanAllRespond
    /\ UNCHANGED <<rlVars, adVars, metaVars, orgVars, mdTask, auxVars>>

SpecScanAll == InitScanAll /\ [][NextScanAll]_vars

\* the folders of the entries scan_all_libraries has pushed
Reported == {scanAll.results[i].folder : i \in DOMAIN scanAll.results}

\* C19: a folder with enabled = false is never scanned: no step of a scan
\* operation adds a media item to a folder that is disabled, and no step
\* that disables a folder removes its items
C19_DisabledNeverScanned ==
    [][\A r \in libraryFolders :
          ~r.enabled =>
             /\ \A m \in mediaItems' \ mediaItems : m.library_folder_id # r.id
             /\ \A m \in mediaItems \ mediaItems' : m.library_folder_id # r.id]_vars

\* C20: scan_all_libraries returns exactly one entry per folder that was
\* enabled when it listed them; the entry of a folder whose path was missing
\* or not a directory has errors = 1 and zero counts, every other entry is
\* the outcome of a walk, and no failure keeps a later folder from its entry
C20_ScanAllReports ==
    /\ scanAll.pc \in {"loop", "scanning"} =>
          /\ Reported \cup {scanAll.todo[i] : i \in DOMAIN scanAll.todo} = scanAll.listed
          /\ Len(scanAll.results) + Len(scanAll.todo) = Cardinality(scanAll.listed)
    /\ scanAll.pc = "returned" =>
          /\ Reported = scanAll.listed
          /\ Len(scanAll.results) = Cardinality(scanAll.listed)
          /\ \A i \in DOMAIN scanAll.results :
                LET e == scanAll.results[i]
                IN  /\ e.folder.enabled
                    /\ e.path_state # "dir" <=> e.result = FailedEntry
                    /\ e.path_state = "dir" =>
                          e.result.total_files =
                             e.result.new_items + e.result.existing_items
                             + e.result.errors

\* scan-all returned with two entries, the first of a folder whose scan
\* failed and the second of a folder that was walked and got its item
C20_Witness ==
    /\ scanAll.pc = "returned"
    /\ Len(scanAll.results) = 2
    /\ scanAll.results[1].result = FailedEntry
    /\ scanAll.results[2].result.new_items = 1

\* --------------------------------------------------- aggregator: search
\* the server has started and nothing is running
InitServerIdle ==
    /\ InitLimiter
    /\ config = [max_concurrent |-> 1, max_requests |-> 1, window_seconds |-> 1]
    /\ registered = {}
    /\ token = "none"
    /\ files = Files
    /\ unreadable = {}
    /\ dirState = [d \in Dirs |-> "dir"]
    /\ changes = 0
    /\ InitStoreAndScans
    /\ InitAgentIdle
    /\ InitOrgIdle
    /\ InitReqIdle
    /\ InitCacheIdle
    /\ InitRaceIdle
    /\ InitLookupIdle

\* the HTTP searches the adapters make: TMDB one for movies and one for
\* series, every other adapter one
BackendCalls == {"tmdb_movie", "tmdb_tv", "tvdb", "anilist", "bangumi"}

\* what a backend search comes back with: an error, or a list of so many hits
BackendOutcomes == {[ok |-> FALSE, hits |-> 0]} \cup {[ok |-> TRUE, hits |-> n] : n \in 0..1}

\* hits results of one kind from one provider
Hits(provider, kind, outcome) ==
    [i \in 1..outcome.hits |-> [kind |-> kind, provider |-> provider]]

\* MetadataProvider::search of each adapter.  TMDB adds the movies and the
\* series of the sub-searches that succeeded and fails with NotFound when
\* nothing is left; the others pass on the error or the list of their one call
provider_search(a, raw) ==
    CASE a = "tmdb" ->
           LET results ==
                  (IF raw["tmdb_movie"].ok
                   THEN Hits("tmdb", "Movie", raw["tmdb_movie"]) ELSE <<>>)
                  \o (IF raw["tmdb_tv"].ok
                      THEN Hits("tmdb", "Tv", raw["tmdb_tv"]) ELSE <<>>)
           IN  [ok |-> results # <<>>, results |-> results]
      [] a = "tvdb" ->
           [ok |-> raw["tvdb"].ok, results |-> Hits("tvdb", "Tv", raw["tvdb"])]
      [] a = "anilist" ->
           [ok |-> raw["anilist"].ok,
            results |-> Hits("anilist", "Anime", raw["anilist"])]
      [] OTHER ->
           [ok |-> raw["bangumi"].ok,
            results |-> Hits("bangumi", "Anime", raw["bangumi"])]

\* an aggregator that gives up when one adapter fails
RECURSIVE collect_failFast(_, _)
collect_failFast(providers, raw) ==
    IF \E i \in DOMAIN providers : ~provider_search(providers[i], raw).ok
    THEN <<>>
    ELSE IF providers = <<>> THEN <<>>
    ELSE provider_search(Head(providers), raw).results
         \o collect_failFast(Tail(providers), raw)

\* ScraperManager::search, first part: search is invoked on every registered
\* adapter; the successes are collected, a failure is logged and skipped
RECURSIVE collect(_, _)
collect(providers, raw) ==
    IF providers = <<>> THEN <<>>
    ELSE LET reply == provider_search(Head(providers), raw)
         IN  (IF reply.ok THEN reply.results ELSE <<>>)
             \o collect(Tail(providers), raw)

\* the registration orders of up to three adapters
ProviderLists ==
    UNION {{q \in [1..n -> Adapters] : \A i, j \in 1..n : q[i] = q[j] => i = j}
             : n \in 0..3}

\* a search is about to be made on some registered adapters, whose backend
\* searches will come back in some way
InitSearch ==
    /\ InitServerIdle
    /\ ret = NoCall
    /\ \E providers \in ProviderLists, raw \in [BackendCalls -> BackendOutcomes] :
          call = [fn |-> "search", providers |-> providers, raw |-> raw]

\* ScraperManager::search returns
Search ==
    /\ call.fn = "search"
    /\ ret = NoCall
    /\ LET collected == collect(call.providers, call.raw)
       IN  ret' = [fn |-> "search",
                   reply |-> manager_search(NoQuery,
                                [i \in DOMAIN collected |-> collected[i].kind]),
                   from |-> [i \in DOMAIN collected |-> collected[i].provider]]
    /\ UNCHANGED call

NextSearch ==
    /\ Search
    /\ UNCHANGED <<rlVars, adVars, pipeVars, metaVars, orgVars, reqVars, cacheVars, raceVars,
                   lookupVars>>

SpecSearch == InitSearch /\ [][NextSearch]_vars

\* the kinds of the returned results that came from adapter a, in order
ReturnedFrom(a) ==
    LET idx == SelectSeq([i \in DOMAIN ret.from |-> i], LAMBDA i : ret.from[i] = a)
    IN  [j \in DOMAIN idx |-> ret.reply.results[idx[j]].kind]

\* the registered adapters whose search succeeded with at least one result
Productive ==
    {a \in {call.providers[i] : i \in DOMAIN call.providers} :
        LET reply == provider_search(a, call.raw)
        IN  reply.ok /\ reply.results # <<>>}

\* C21: the aggregator's search returns the successes of every registered
\* adapter: the results of each adapter that succeeded are all there, in
\* order, nothing comes from an adapter that failed or is not registered,
\* and the search is NotFound exactly when every adapter failed or returned
\* an empty list
C21_SearchCollectsSuccesses ==
    ret.fn = "search" =>
       /\ ret.reply.ok <=> Productive # {}
       /\ \A a \in Adapters :
             ReturnedFrom(a) =
                IF a \in Productive
                THEN LET results == provider_search(a, call.raw).results
                     IN  [i \in DOMAIN results |-> results[i].kind]
                ELSE <<>>

\* a search on three adapters of which one failed, one returned nothing and
\* one returned a result
C21_Witness ==
    /\ ret.fn = "search"
    /\ ret.reply.ok
    /\ Len(call.providers) = 3
    /\ \E a \in Adapters \ Productive :
          a \in {call.providers[i] : i \in DOMAIN call.providers}
          /\ ~provider_search(a, call.raw).ok
    /\ \E a \in Adapters \ Productive :
          a \in {call.providers[i] : i \in DOMAIN call.providers}
          /\ provider_search(a, call.raw).ok

\* ------------------------------------------------ TVDB: token and request
\* what an HTTP exchange can end with: a network error, a status, and for a
\* success status a body that parses or not
HttpOutcomes ==
    {[net |-> FALSE, status |-> 0, parses |-> FALSE]} \cup
    {[net |-> TRUE, status |-> st, parses |-> p] :
        st \in {200, 401, 500}, p \in BOOLEAN}

\* the Result returned for an exchange that did not succeed
HttpError(outcome) ==
    IF ~outcome.net THEN "Network"
    ELSE IF outcome.status # 200 THEN "Api"
    ELSE "Parse"

\* caller c runs no TVDB request; it has made so many
TvdbIdle(n) == [pc |-> "idle", n |-> n, logins |-> 0, sends |-> 0, statuses |-> <<>>]

\* the Result of a request; nothing returned yet
TvdbNoResult == [done |-> FALSE, ok |-> FALSE, error |-> "none", status |-> 0]
TvdbResult(outcome) ==
    IF outcome.net /\ outcome.status = 200 /\ outcome.parses
    THEN [done |-> TRUE, ok |-> TRUE, error |-> "none", status |-> 200]
    ELSE [done |-> TRUE, ok |-> FALSE, error |-> HttpError(outcome),
          status |-> outcome.status]

\* TvdbProvider::request, line 78, and get_token, lines 36-47: the cached
\* token is taken and the GET is sent with it, or the login POST is sent
TvdbCall(c) ==
    /\ call.fn = "tvdb"
    /\ call.by[c].pc = "idle"
    /\ call.by[c].n < MaxCalls
    /\ call' = [call EXCEPT !.by[c] =
                   [TvdbIdle(@.n + 1) EXCEPT
                       !.pc = IF token = "none" THEN "login" ELSE "sending",
                       !.sends = IF token = "none" THEN 0 ELSE 1]]
    /\ ret' = [ret EXCEPT !.by[c] = TvdbNoResult]
    /\ UNCHANGED token

\* get_token, lines 50-73: the login response arrives; the token is stored
\* and the GET is sent with it, or request returns the error
TvdbLogin(c, outcome) ==
    /\ call.fn = "tvdb"
    /\ call.by[c].pc = "login"
    /\ IF TvdbResult(outcome).ok
       THEN /\ token' = "tok"
            /\ call' = [call EXCEPT !.by[c].pc = "sending",
                                    !.by[c].logins = @ + 1,
                                    !.by[c].sends = @ + 1]
            /\ UNCHANGED ret
       ELSE /\ call' = [call EXCEPT !.by[c].pc = "idle", !.by[c].logins = @ + 1]
            /\ ret' = [ret EXCEPT !.by[c] = TvdbResult(outcome)]
            /\ UNCHANGED token

\* TvdbProvider::request, lines 81-102: the response to the GET arrives
TvdbResponse(c, outcome) ==
    /\ call.fn = "tvdb"
    /\ call.by[c].pc = "sending"
    /\ call' = [call EXCEPT !.by[c].pc = "idle",
                            !.by[c].statuses = Append(@, outcome.status)]
    /\ ret' = [ret EXCEPT !.by[c] = TvdbResult(outcome)]
    /\ UNCHANGED token

\* TvdbProvider::new: no token yet, no request made
InitTvdb ==
    /\ InitServerIdle
    /\ call = [fn |-> "tvdb", by |-> [c \in Callers |-> TvdbIdle(0)]]
    /\ ret = [fn |-> "tvdb", by |-> [c \in Callers |-> TvdbNoResult]]

NextTvdb ==
    /\ \/ \E c \in Callers : TvdbCall(c)
       \/ \E c \in Callers, outcome \in HttpOutcomes : TvdbLogin(c, outcome)
       \/ \E c \in Callers, outcome \in HttpOutcomes : TvdbResponse(c, outcome)
    /\ UNCHANGED <<rlVars, registered, pipeVars, metaVars, orgVars, reqVars, cacheVars, raceVars,
                   lookupVars>>

SpecTvdb == InitTvdb /\ [][NextTvdb]_vars

\* C22: a TVDB request that receives a 401 discards the cached token, logs
\* in again once and retries once: a request whose GET was answered with
\* 401 returns a failure only after a second GET, sent with the token of a
\* login made after the 401, has failed too
C22_ReloginOn401 ==
    \A c \in Callers :
       (/\ call.by[c].pc = "idle"
        /\ ret.by[c].done /\ ~ret.by[c].ok
        /\ call.by[c].statuses # <<>> /\ call.by[c].statuses[1] = 401)
       => /\ call.by[c].sends = 2
          /\ Len(call.by[c].statuses) = 2

\* ------------------------------------------------------------------ cache
\* A value is given with its Rust type; v holds its parts as strings.  The
\* serialized form is a sequence of JSON lexemes: q tells a quoted string
\* from a bare lexeme (a bracket, a comma, null, a number).
Bare(s) == [q |-> FALSE, s |-> s]
Quoted(s) == [q |-> TRUE, s |-> s]

\* the values stored: two Vec<String>, two Option<i32>, and a map keyed by
\* pairs, which serde_json refuses to serialize
CacheValues ==
    {[type |-> "VecString", v |-> <<"movie1", "movie2">>],
     [type |-> "VecString", v |-> <<"movie1">>],
     [type |-> "OptionI32", v |-> <<>>],
     [type |-> "OptionI32", v |-> <<"2016">>],
     [type |-> "MapPairKey", v |-> <<"k">>]}
CacheTypes == {"VecString", "OptionI32"}

RECURSIVE json_items(_)
json_items(strs) ==
    IF strs = <<>> THEN <<>>
    ELSE IF Len(strs) = 1 THEN <<Quoted(strs[1])>>
    ELSE <<Quoted(strs[1]), Bare(",")>> \o json_items(Tail(strs))

\* serde_json::to_vec(value): Some(bytes), or None for an error
to_vec(value) ==
    CASE value.type = "VecString" ->
            Some(<<Bare("[")>> \o json_items(value.v) \o <<Bare("]")>>)
      [] value.type = "OptionI32" ->
            Some(IF value.v = <<>> THEN <<Bare("null")>> ELSE <<Bare(value.v[1])>>)
      [] OTHER -> <<>>

\* the strings of a comma-separated list of quoted strings, or None
RECURSIVE parse_items(_)
parse_items(lexemes) ==
    IF lexemes = <<>> THEN <<>>
    ELSE IF ~lexemes[1].q THEN <<>>
    ELSE IF Len(lexemes) = 1 THEN Some(<<lexemes[1].s>>)
    ELSE IF lexemes[2] # Bare(",") \/ Len(lexemes) = 2 THEN <<>>
    ELSE LET rest == parse_items(SubSeq(lexemes, 3, Len(lexemes)))
         IN  IF rest = <<>> THEN <<>> ELSE Some(<<lexemes[1].s>> \o rest[1])

\* serde_json::from_slice::<T>(data).ok()
from_slice(type, data) ==
    CASE type = "VecString" ->
            IF Len(data) >= 2 /\ data[1] = Bare("[") /\ data[Len(data)] = Bare("]")
            THEN IF Len(data) = 2 THEN Some(<<>>)
                 ELSE parse_items(SubSeq(data, 2, Len(data) - 1))
            ELSE <<>>
      [] type = "OptionI32" ->
            IF Len(data) = 1 /\ ~data[1].q /\ data[1].s \notin {"[", "]", ","}
            THEN IF data[1].s = "null" THEN Some(<<>>) ELSE Some(<<data[1].s>>)
            ELSE <<>>
      [] OTHER -> <<>>

\* moka: an entry is returned as long as less than time_to_live has passed
\* since it was inserted
live(c, k) == c.map[k] # <<>> /\ c.map[k][1].age < c.ttl_seconds

\* a lookup that ignores the age of the entry
get_ignoringTtl(c, k, type) ==
    IF c.map[k] = <<>> THEN <<>> ELSE from_slice(type, c.map[k][1].data)

\* ScraperCache::get::<T>: the entry's bytes, deserialized
get(c, k, type) ==
    IF ~live(c, k) THEN <<>> ELSE from_slice(type, c.map[k][1].data)

\* an insert that leaves an entry that is already there as it is
insert_keepsOld(c, k, data) ==
    IF c.map[k] # <<>> THEN c
    ELSE [c EXCEPT !.map[k] = Some([data |-> data, age |-> 0])]

\* moka Cache::insert: the entry replaces what the key held, its age is 0
insert(c, k, data) == [c EXCEPT !.map[k] = Some([data |-> data, age |-> 0])]

\* an invalidation that empties the whole cache
invalidate_everyKey(c, k) == [c EXCEPT !.map = [j \in CacheKeys |-> <<>>]]

\* moka Cache::invalidate: the entry of the key is discarded
invalidate(c, k) == [c EXCEPT !.map[k] = <<>>]

\* the keys that hold an entry, expired or not
Held(c) == {k \in CacheKeys : c.map[k] # <<>>}

\* moka run_pending_tasks: expired entries are removed; when more entries
\* are left than max_capacity only the entries of keep stay; the entry
\* count is brought up to date
run_pending_tasks(c, keep) ==
    LET unexpired == {k \in Held(c) : live(c, k)}
        kept == IF Cardinality(unexpired) > c.max_capacity
                THEN unexpired \cap keep ELSE unexpired
    IN  [c EXCEPT !.map = [k \in CacheKeys |-> IF k \in kept THEN @[k] ELSE <<>>],
                  !.entry_count = Cardinality(kept)]

\* a clear that does not wait for the pending tasks
clear_countStale(c) == [c EXCEPT !.map = [k \in CacheKeys |-> <<>>]]

\* ScraperCache::clear: invalidate_all, then run_pending_tasks
clear(c) == run_pending_tasks([c EXCEPT !.map = [k \in CacheKeys |-> <<>>]], {})

\* ScraperCache::len
len(c) == c.entry_count

\* the history of a key after an operation on it
Touched(op, value) == [op |-> op, value |-> value, age |-> 0, evicted |-> FALSE]

\* ScraperCache::set(key, &value)
CacheSet(k, value) ==
    /\ call' = [fn |-> "set", key |-> k]
    /\ LET serialized == to_vec(value)
       IN  IF serialized = <<>>
           THEN /\ ret' = [fn |-> "set", ok |-> FALSE]
                /\ UNCHANGED cacheVars
           ELSE /\ ret' = [fn |-> "set", ok |-> TRUE]
                /\ cache' = insert(cache, k, serialized[1])
                /\ cacheHist' = [cacheHist EXCEPT ![k] = Touched("set", value)]

\* ScraperCache::get::<T>(&key)
CacheGet(k, type) ==
    /\ call' = [fn |-> "get", key |-> k]
    /\ ret' = [fn |-> "get", key |-> k, type |-> type, value |-> get(cache, k, type)]
    /\ UNCHANGED cacheVars

\* ScraperCache::invalidate(&key)
CacheInvalidate(k) ==
    /\ call' = [fn |-> "invalidate", key |-> k]
    /\ ret' = [fn |-> "invalidate"]
    /\ cache' = invalidate(cache, k)
    /\ cacheHist' = [cacheHist EXCEPT ![k] = Touched("invalidated", Untouched.value)]

\* ScraperCache::clear()
CacheClear ==
    /\ call' = [fn |-> "clear"]
    /\ ret' = [fn |-> "clear"]
    /\ cache' = clear(cache)
    /\ cacheHist' = [k \in CacheKeys |->
                       IF cacheHist[k].op = "none" THEN Untouched
                       ELSE Touched("cleared", Untouched.value)]

\* ScraperCache::run_pending_tasks, or moka's own maintenance: entries over
\* the capacity are evicted, which ones is up to the eviction policy
CacheMaintain(keep) ==
    /\ Cardinality(keep) = Min(cache.max_capacity, Cardinality(CacheKeys))
    /\ call' = [fn |-> "run_pending_tasks"]
    /\ ret' = [fn |-> "run_pending_tasks"]
    /\ cache' = run_pending_tasks(cache, keep)
    /\ cacheHist' = [k \in CacheKeys |->
                       IF live(cache, k) /\ cache'.map[k] = <<>>
                       THEN [cacheHist[k] EXCEPT !.evicted = TRUE]
                       ELSE cacheHist[k]]

\* a second passes
CacheTick ==
    /\ \E k \in CacheKeys : cacheHist[k].age <= cache.ttl_seconds
    /\ call' = NoCall
    /\ ret' = NoCall
    /\ cache' = [cache EXCEPT !.map =
                    [k \in CacheKeys |->
                        IF @[k] = <<>> \/ @[k][1].age > cache.ttl_seconds THEN @[k]
                        ELSE Some([@[k][1] EXCEPT !.age = @ + 1])]]
    /\ cacheHist' = [k \in CacheKeys |->
                       IF cacheHist[k].age > cache.ttl_seconds THEN cacheHist[k]
                       ELSE [cacheHist[k] EXCEPT !.age = @ + 1]]

\* the longest time to live, in seconds, and the largest capacity of a cache
MaxTtl == 2

MaxCapacity == 2

\* ScraperCache::with_config(ttl_seconds, max_capacity)
InitCache ==
    /\ InitLimiter
    /\ config = [max_concurrent |-> 1, max_requests |-> 1, window_seconds |-> 1]
    /\ registered = {}
    /\ token = "none"
    /\ files = Files
    /\ unreadable = {}
    /\ dirState = [d \in Dirs |-> "dir"]
    /\ changes = 0
    /\ InitStoreAndScans
    /\ InitAgentIdle
    /\ InitOrgIdle
    /\ InitReqIdle
    /\ call = NoCall
    /\ ret = NoCall
    /\ \E ttl_seconds \in 1..MaxTtl, max_capacity \in 1..MaxCapacity :
          cache = with_config(ttl_seconds, max_capacity)
    /\ cacheHist = [k \in CacheKeys |-> Untouched]
    /\ InitRaceIdle
    /\ InitLookupIdle

NextCache ==
    /\ \/ \E k \in CacheKeys, value \in CacheValues : CacheSet(k, value)
       \/ \E k \in CacheKeys, type \in CacheTypes : CacheGet(k, type)
       \/ \E k \in CacheKeys : CacheInvalidate(k)
       \/ CacheClear
       \/ \E keep \in SUBSET CacheKeys : CacheMaintain(keep)
       \/ CacheTick
    /\ UNCHANGED <<rlVars, adVars, pipeVars, metaVars, orgVars, reqVars, raceVars,
                   lookupVars>>

SpecCache == InitCache /\ [][NextCache]_vars

\* the history of the key that the get just made looked up
Looked == cacheHist[ret.key]

\* C23: a get of key k made after set(k, v) and before the TTL has elapsed,
\* with no invalidate, clear or capacity eviction of k in between, returns
\* v, where v is the value of the last set of k
C23_GetReturnsLastSet ==
    (/\ ret.fn = "get"
     /\ Looked.op = "set"
     /\ ~Looked.evicted
     /\ Looked.age < cache.ttl_seconds
     /\ ret.type = Looked.value.type)
    => ret.value = Some(Looked.value.v)

\* a get returned the value of the second set of its key, a second after it
C23_Witness ==
    /\ ret.fn = "get"
    /\ Looked.op = "set"
    /\ Looked.age = 1
    /\ ret.value = Some(<<"movie1">>)
    /\ cache.map[ret.key] # <<>>
    /\ cache.map[ret.key][1].age = 1

\* C24: an entry is live only for the configured TTL: a get of k made later
\* than ttl_seconds after the last set of k returns none
C24_ExpiredIsGone ==
    (/\ ret.fn = "get"
     /\ Looked.op = "set"
     /\ Looked.age > cache.ttl_seconds)
    => ret.value = <<>>

\* a get found nothing for a key whose entry, set more than the TTL ago, is
\* still held
C24_Witness ==
    /\ ret.fn = "get"
    /\ Looked.op = "set"
    /\ Looked.age > cache.ttl_seconds
    /\ cache.map[ret.key] # <<>>
    /\ ret.value = <<>>

\* C25: after invalidate(k) a get of k returns none until k is set again,
\* and the invalidation leaves what every other key returns as it was
C25_InvalidateOnlyThatKey ==
    /\ [](ret.fn = "get" /\ Looked.op = "invalidated" => ret.value = <<>>)
    /\ [][call'.fn = "invalidate" =>
             \A j \in CacheKeys \ {call'.key} : \A type \in CacheTypes :
                get(cache', j, type) = get(cache, j, type)]_vars

\* a get after an invalidation of its key returned none while the other key
\* still returns its value
C25_Witness ==
    /\ ret.fn = "get"
    /\ Looked.op = "invalidated"
    /\ ret.value = <<>>
    /\ \E j \in CacheKeys \ {ret.key} :
          /\ cacheHist[j].op = "set"
          /\ get(cache, j, "VecString") = Some(<<"movie1", "movie2">>)

\* C26: when clear() has returned len() is 0, and a get of a key set before
\* the call returns none until the key is set again
C26_ClearEmptiesCache ==
    /\ call.fn = "clear" =>
          /\ len(cache) = 0
          /\ \A k \in CacheKeys, type \in CacheTypes : get(cache, k, type) = <<>>
    /\ (ret.fn = "get" /\ Looked.op = "cleared") => ret.value = <<>>

\* clear() has just returned on a cache that held two counted entries
C26_Witness ==
    /\ call.fn = "clear"
    /\ \A k \in CacheKeys : cacheHist[k].op = "cleared"
    /\ len(cache) = 0

\* ---------------------------------------------------------------------
\* metadata agent: parse_title_and_year as a function of the title
\* ---------------------------------------------------------------------

\* the longest text in front of the year part of a title
MaxHead == 2

\* every string over the alphabet of at most n characters
StringsUpTo(alphabet, n) == UNION {[1..m -> alphabet] : m \in 0..n}

\* titles: some text, then an optional "(", three to five digits, an
\* optional ")" and at most one more character
TitleInputs ==
    {head \o open \o digits \o close \o rest :
        head \in StringsUpTo({"F", " ", "\n", "("}, MaxHead),
        open \in {<<>>, <<"(">>},
        digits \in UNION {[1..m -> {"1", ArabicIndicOne}] : m \in 3..5},
        close \in {<<>>, <<")">>},
        rest \in StringsUpTo({"F", " ", "\n"}, 1)}

InitParse ==
    /\ InitServerIdle
    /\ call \in {[fn |-> "parse_title_and_year", title |-> title] :
                    title \in TitleInputs}
    /\ ret = NoCall

\* the call of parse_title_and_year returns
ParseTitle ==
    /\ call.fn = "parse_title_and_year"
    /\ ret = NoCall
    /\ ret' = [fn |-> "parse_title_and_year",
               result |-> parse_title_and_year(call.title)]
    /\ UNCHANGED call

NextParse ==
    /\ ParseTitle
    /\ UNCHANGED <<rlVars, adVars, pipeVars, metaVars, orgVars, reqVars, cacheVars, raceVars,
                   lookupVars>>

SpecParse == InitParse /\ [][NextParse]_vars

\* the title is T of k characters, white space, "(" at position j, four
\* digits 0-9, ")" and white space to the end
Shaped(title, k, j) ==
    /\ 1 <= k
    /\ k < j
    /\ j + 5 <= Len(title)
    /\ \A i \in (k + 1)..(j - 1) : IsSpace(title[i])
    /\ title[j] = "("
    /\ \A i \in (j + 1)..(j + 4) : IsDigit(title[i])
    /\ title[j + 5] = ")"
    /\ \A i \in (j + 6)..Len(title) : IsSpace(title[i])

Shapes(title) ==
    {kj \in (1..Len(title)) \X (1..Len(title)) : Shaped(title, kj[1], kj[2])}

\* C27: parse_title_and_year returns (T, Y) when the title is a non-empty
\* T, optional white space, "(", exactly four digits Y, ")" and optional
\* trailing white space, and returns the title unchanged with no year for
\* every other title
C27_ParsesTitleAndYear ==
    ret.fn = "parse_title_and_year" =>
        IF Shapes(call.title) # {}
        THEN \E kj \in Shapes(call.title) :
                ret.result =
                    [title |-> SubSeq(call.title, 1, kj[1]),
                     year |-> Some(DecimalValue(
                                 SubSeq(call.title, kj[2] + 1, kj[2] + 4)))]
        ELSE ret.result = [title |-> call.title, year |-> <<>>]

\* ---------------------------------------------------------------------
\* organizer: generate_target_path as a function of file and metadata
\* ---------------------------------------------------------------------

\* the longest title and the longest release date of a metadata record
MaxText == 2

\* Video metadata: title and release date present or not, over the
\* characters that matter to the path; season number present or not
VideoInputs ==
    [kind : {"Video"},
     title : {<<>>} \cup {Some(t) : t \in StringsUpTo({"T", "/"}, MaxText)},
     release_date : {<<>>} \cup
                    {Some(d) : d \in StringsUpTo({"2", "-"}, MaxText)},
     season_number : {<<>>, Some(0), Some(1), Some(12)}]

\* source files, and the root path, which has no file name
PathInputs == OrgFiles \cup {[path |-> <<>>, media_type |-> "Video"]}

InitPath ==
    /\ InitServerIdle
    /\ call \in {[fn |-> "generate_target_path", file_info |-> f, metadata |-> m] :
                    f \in PathInputs, m \in VideoInputs}
    /\ ret = NoCall

\* the call of generate_target_path returns
GeneratePath ==
    /\ call.fn = "generate_target_path"
    /\ ret = NoCall
    /\ ret' = [fn |-> "generate_target_path",
               result |-> generate_target_path(scraper.target_path,
                                               call.file_info, call.metadata)]
    /\ UNCHANGED call

NextPath ==
    /\ GeneratePath
    /\ UNCHANGED <<rlVars, adVars, pipeVars, metaVars, orgVars, reqVars, cacheVars, raceVars,
                   lookupVars>>

SpecPath == InitPath /\ [][NextPath]_vars

\* the components of a relative path text
Components(text) == SelectSeq(split(text, "/"), LAMBDA c : c # <<>>)

\* <target dir>/Videos/<Title> (<Year>)[/Season <N>]/<original filename>
VideoPath(root, file_info, metadata) ==
    LET Unknown == <<"U", "n", "k", "n", "o", "w", "n">>
        Title == IF metadata.title = <<>> THEN Unknown ELSE metadata.title[1]
        date == metadata.release_date
        Year == IF date = <<>> THEN Unknown
                ELSE IF \E i \in DOMAIN date[1] : date[1][i] = "-"
                     THEN SubSeq(date[1], 1,
                                 (CHOOSE i \in DOMAIN date[1] :
                                     /\ date[1][i] = "-"
                                     /\ \A j \in 1..(i - 1) : date[1][j] # "-") - 1)
                     ELSE date[1]
        Season == IF metadata.season_number = <<>> THEN <<>>
                  ELSE << <<"S", "e", "a", "s", "o", "n", " ">> \o
                          to_string(metadata.season_number[1]) >>
    IN  root \o << <<"V", "i", "d", "e", "o", "s">> >>
             \o Components(Title \o <<" ", "(">> \o Year \o <<")">>)
             \o Season
             \o <<file_info.path[Len(file_info.path)]>>

\* C28: for Video details the generated target path is
\* <target dir>/Videos/<Title> (<Year>)[/Season <N>]/<original filename>:
\* Year is the text before the first "-" of the release date, the Season
\* directory is there exactly when a season number is set, and Title and
\* Year are "Unknown" when the title, or the release date, is missing
C28_VideoTargetPath ==
    (ret.fn = "generate_target_path" /\ ret.result # <<>>) =>
        ret.result[1] = VideoPath(scraper.target_path, call.file_info, call.metadata)

\* ---------------------------------------------------------------------
\* overlapping scans of one folder, their metadata tasks, and its deletion
\* ---------------------------------------------------------------------

\* the counter of scan s that the step has raised
Grew(s, field) == scanResult'[s][field] > scanResult[s][field]

\* history: the path is noted under the counter that the step has raised
Tally(s, path) ==
    countedAs' = [countedAs EXCEPT ![s] =
        [new |-> IF Grew(s, "new_items") THEN @.new \cup {path} ELSE @.new,
         existing |-> IF Grew(s, "existing_items")
                      THEN @.existing \cup {path} ELSE @.existing,
         errors |-> IF Grew(s, "errors") THEN @.errors \cup {path} ELSE @.errors]]

RaceStart(s) ==
    /\ ScanStart(s, 1)
    /\ countedAs' = [countedAs EXCEPT ![s] = NoneCounted]
    /\ UNCHANGED <<mdTask, refused>>

RaceVisit(s, f) ==
    /\ ScanVisit(s, f)
    /\ Tally(s, PathOf(f))
    /\ UNCHANGED <<mdTask, refused>>

RaceCreate(s) ==
    /\ ScanCreate(s)
    /\ Tally(s, PathOf(scanCur[s]))
    /\ UNCHANGED <<mdTask, refused>>

\* fetch_and_save_metadata got as far as the upsert and the store refused it
UpsertRefused(item, kinds, details) ==
    LET reply == manager_search(parse_title_and_year(item.title), kinds)
        pick == matching_result(item.media_type, reply.results)
        metadata == create_metadata(item.id, details)
    IN  /\ reply.ok
        /\ pick # NoResult
        /\ details # DetailsFailed
        /\ metadata.supported
        /\ ~UpsertAccepted(metadata)

RaceFetch(t, kinds, details) ==
    /\ TaskFetch(t, kinds, details)
    /\ refused' = [refused EXCEPT ![t] =
          @ \/ UpsertRefused(mdTask[t].items[mdTask[t].idx], kinds, details)]
    /\ UNCHANGED countedAs

\* the details a task of these scans is answered with
RaceDetails == {DetailsFailed} \cup {d \in MovieDetails : d.genres # <<>>}

NextRace ==
    /\ \/ \E s \in Scanners : RaceStart(s)
       \/ \E s \in Scanners, f \in Files : RaceVisit(s, f)
       \/ \E s \in Scanners : RaceCreate(s)
       \/ \E s \in Scanners : ScanFinish(s) /\ UNCHANGED <<mdTask, raceVars>>
       \/ \E s \in Scanners : ScanRespond(s) /\ UNCHANGED raceVars
       \/ \E t \in MetadataTasks : TaskQuery(t) /\ UNCHANGED raceVars
       \/ \E t \in MetadataTasks, kinds \in SearchReplies, details \in RaceDetails :
             RaceFetch(t, kinds, details)
       \/ \E t \in MetadataTasks : TaskNext(t) /\ UNCHANGED raceVars
       \/ DeleteFolder(1) /\ UNCHANGED <<mdTask, raceVars>>
    /\ UNCHANGED <<rlVars, adVars, metaVars, orgVars, scanAll, call, ret, cacheVars,
                   lookupVars>>

SpecRace == InitSpawn /\ [][NextRace]_vars

\* the scans that overlap: both have begun and neither has returned
BothScanning == \A s \in Scanners : scanPc[s] # "idle"

\* C29: when two scans of the same folder run concurrently no two MediaItem
\* rows have the same file_path, and no file is counted in new_items by
\* both scans: the scan that did not insert the row counts the file as
\* existing or as an error
C29_NoDuplicateRows ==
    /\ \A m1, m2 \in mediaItems : m1.file_path = m2.file_path => m1 = m2
    /\ \A s, t \in Scanners :
          s # t => countedAs[s].new \cap countedAs[t].new = {}

\* both scans missed the row of the second file and tried to insert it: one
\* counted it as new, the INSERT of the other failed
C29_Witness ==
    /\ BothScanning
    /\ \E s, t \in Scanners :
          /\ countedAs[s].new = {PathOf(FileHeat)}
          /\ countedAs[t].errors = {PathOf(FileHeat)}
          /\ countedAs[t].existing = {PathOf(FileArrival)}
    /\ Cardinality(mediaItems) = 2

RanOnce ==
    /\ runPc = "returned"
    /\ runResult.kind = "Ok"
    /\ runFiles # {}
    /\ changes = 0
    /\ \A f \in OrgFiles : task[f].runs = (IF f \in runFiles THEN 1 ELSE 0)

\* the content the source file had before the run is the content of a file
ContentKept(f) ==
    \E e \in disk : e.kind = "file" /\ e.data = Node(Disk0, f.path).data

\* C31: with method = move no content is lost: after run() the content of
\* every scanned source file is at its original path or at a target path,
\* also when two files of one name get the same target path and are
\* processed concurrently
C31_MoveLosesNoContent ==
    (RanOnce /\ scraper.organize_method = "Move" /\ ~scraper.dry_run)
    => \A f \in runFiles : ContentKept(f)

\* ---------------------------------------------------------------------
\* rate limiter: the permit of a sleeping caller
\* ---------------------------------------------------------------------

\* the callers of instance l that sleep in the window loop
Sleepers(l) == {c \in Callers : pc[c] = "sleeping" /\ lim[c] = l}

\* C32: a caller of acquire keeps its permit while it sleeps on its
\* provider's window, so while max_concurrent callers sleep no other
\* acquire on the limiter gets past the semaphore, whatever its provider
C32_SleepKeepsPermit ==
    /\ [](\A c \in Callers : pc[c] = "sleeping" => permit[c])
    /\ [][\A c \in Callers :
            (pc[c] = "wait_permit" /\ pc'[c] = "loop") =>
                Cardinality(Sleepers(lim[c])) < config.max_concurrent]_vars

\* the only permit is with a caller that sleeps on a full window, and the
\* other caller waits at the semaphore for a provider whose window is free
C32_Witness ==
    /\ config.max_concurrent = 1
    /\ config.max_requests >= 1
    /\ \E c, d \in Callers :
          /\ pc[c] = "sleeping"
          /\ sleepLeft[c] > 0
          /\ pc[d] = "wait_permit"
          /\ lim[d] = lim[c]
          /\ key[d] # key[c]
          /\ can_request(cleanup(records[lim[d]][key[d]], config.window_seconds),
                         config.max_requests)

\* ---------------------------------------------------------------------
\* organizer: the end of process_single_file
\* ---------------------------------------------------------------------

\* C33: for every retry_count >= 0, 0 included, a process_single_file in
\* non-dry-run mode that ends returns success or an error value; it never
\* panics
C33_NeverPanics ==
    \A f \in OrgFiles :
        (~scraper.dry_run /\ task[f].pc = "done")
        => /\ task[f].result # "panic"
           /\ task[f].result # "none"

\* C34: for every non-empty set of scanned files and every configuration a
\* run() returns a progress with processed_files = total_files (what the
\* claim says of the returned value; a run that has not returned is in no
\* conflict with it here)
C34_RunProcessesEveryFile ==
    (runPc = "returned" /\ runResult.kind = "Ok"
        /\ runResult.progress.total_files > 0)
    => runResult.progress.processed_files = runResult.progress.total_files

\* ---------------------------------------------------------------------
\* scanner: the counters of a ScanResult
\* ---------------------------------------------------------------------

\* the files of a result that were counted under an outcome
Outcomes(res) == res.new_items + res.existing_items + res.errors

\* C35: every ScanResult that scan_library_folder returns has total_files =
\* new_items + existing_items + errors: each matching file is counted under
\* exactly one of the three outcomes
C35_CountersAddUp ==
    \A s \in Scanners :
        /\ (scanPc[s] = "done" /\ scanErr[s] = "none")
              => scanResult[s].total_files = Outcomes(scanResult[s])
        /\ scanPc[s] = "walk"
              => scanResult[s].total_files = Outcomes(scanResult[s])
        /\ scanPc[s] = "create"
              => scanResult[s].total_files = Outcomes(scanResult[s]) + 1

\* a returned result with a file under each of two outcomes, errors among
\* them, in a folder that also holds a file of another extension
C35_Witness ==
    \E s \in Scanners :
        /\ scanPc[s] = "done"
        /\ scanErr[s] = "none"
        /\ scanResult[s].total_files = 2
        /\ scanResult[s].errors = 1
        /\ scanResult[s].new_items = 1
        /\ \E f \in files :
              /\ f.dir = scanFolder[s].path
              /\ to_lowercase(f.ext) \notin
                    get_supported_extensions(scanFolder[s].media_type)

\* ---------------------------------------------------------------------
\* metadata agent: a fetch that fails before the upsert
\* ---------------------------------------------------------------------

\* the errors fetch_and_save_metadata returns before it calls the upsert
EarlyErrors ==
    {"SearchFailed", "NoMatchingResults", "DetailsFailed", "UnsupportedMediaType"}

\* C36: a fetch_and_save_metadata that returns an error before the upsert
\* leaves the video_metadata table as it was: neither its step from the
\* search to get_details nor the step that returns the error inserts or
\* updates a row, of its item or of any other
C36_EarlyErrorWritesNothing ==
    /\ [][(agPc = "search" /\ agPc' = "details")
            => videoMetadata' = videoMetadata]_vars
    /\ [][(Len(apps') = Len(apps) + 1 /\ LastApp(apps').outcome \in EarlyErrors)
            => videoMetadata' = videoMetadata]_vars

\* a fetch saved the metadata of an item and a later fetch for the same item
\* failed at get_details: the row is the one the first fetch wrote
C36_Witness ==
    /\ Len(apps) = 2
    /\ apps[1].outcome = "Ok"
    /\ apps[2].outcome = "DetailsFailed"
    /\ apps[2].item = apps[1].item
    /\ apps[2].rows = apps[1].rows
    /\ apps[2].rows # {}
    /\ apps[2].rows \subseteq videoMetadata

\* ---------------------------------------------------------------------
\* organizer: the progress accumulated while run() executes
\* ---------------------------------------------------------------------

\* the positions of the channel that hold an update of this type for file f
Queued(type, f) ==
    {i \in DOMAIN progress_rx :
        progress_rx[i].type = type /\ progress_rx[i].file = f.path}

\* the files of the run whose task sent its FileCompleted
Completed == {f \in runFiles : task[f].pc = "done" /\ task[f].result # "panic"}

\* C37: while run() executes, processed_files = successful_files +
\* failed_files and processed_files <= total_files; a file contributes at
\* most one completion (the completions received and those still in the
\* channel are one for each file whose task completed); and the progress
\* task receives a file's FileCompleted only when that file's FileStarted
\* was sent and is no longer in the channel
C37_ProgressConsistent ==
    /\ [](runPc = "running" =>
            /\ progress.processed_files
                 = progress.successful_files + progress.failed_files
            /\ progress.processed_files <= progress.total_files
            /\ progress.total_files = Cardinality(runFiles)
            /\ \A f \in runFiles :
                 /\ Cardinality(Queued("FileCompleted", f)) <= 1
                 /\ Queued("FileCompleted", f) # {} => f \in Completed
                 /\ \A i \in Queued("FileCompleted", f) :
                      \A j \in Queued("FileStarted", f) : j < i
            /\ progress.processed_files
                 + Cardinality(UNION {Queued("FileCompleted", f) : f \in runFiles})
                 = Cardinality(Completed))
    /\ [][\A f \in runFiles :
            (runPc = "running" /\ Queued("FileCompleted", f) # {}
               /\ progress'.processed_files = progress.processed_files + 1
               /\ Head(progress_rx).file = f.path)
            => /\ task[f].pc = "done"
               /\ Queued("FileStarted", f) = {}]_vars

\* a run over two files: the completion of one, a failure, was received
\* while the other file's FileStarted and FileCompleted are in the channel
C37_Witness ==
    /\ runPc = "running"
    /\ runFiles = OrgFiles
    /\ progress.processed_files = 1
    /\ progress.failed_files = 1
    /\ \E f \in runFiles :
         /\ Queued("FileStarted", f) # {}
         /\ Queued("FileCompleted", f) # {}

\* ---------------------------------------------------------------------
\* scan request: the items the spawned enrichment task fetches
\* ---------------------------------------------------------------------

\* the media item has a video_metadata row
HasRow(m) == \E v \in videoMetadata : v.media_item_id = m.id

\* the items of the folder that have no video_metadata row
WithoutRow(folder_id) ==
    {m \in mediaItems : m.library_folder_id = folder_id /\ ~HasRow(m)}

\* the video_metadata rows of the items other than m
RowsOfOthers(rows, m) == {v \in rows : v.media_item_id # m.id}

\* C38: the task a scan request spawns selects, when its query runs,
\* exactly the items of the folder without a video_metadata row, each once,
\* and calls fetch_and_save_metadata on each of them in turn, also after a
\* failed fetch; an item with a row at that time is not selected; a fetch
\* writes no row of another item, and an item whose fetch left it without
\* a row is among the items the next query of the folder selects
C38_FetchesItemsWithoutRow ==
    [][\A t \in MetadataTasks :
        LET old == mdTask[t]
            new == mdTask'[t]
        IN  /\ (old.pc = "query" /\ new # old /\ dbUp) =>
                 /\ {new.items[i] : i \in DOMAIN new.items}
                      = WithoutRow(old.folder_id)
                 /\ Len(new.items) = Cardinality(WithoutRow(old.folder_id))
                 /\ IF new.items = <<>> THEN new.pc = "free"
                    ELSE new.pc = "fetch" /\ new.idx = 1
            /\ (old.pc = "fetch" /\ new # old) =>
                 /\ new = [old EXCEPT !.pc = "sleep"]
                 /\ RowsOfOthers(videoMetadata', old.items[old.idx])
                      = RowsOfOthers(videoMetadata, old.items[old.idx])
                 /\ (~HasRow(old.items[old.idx])' /\ old.items[old.idx] \in mediaItems')
                      => old.items[old.idx] \in WithoutRow(old.folder_id)'
            /\ (old.pc = "sleep" /\ new # old) =>
                 IF old.idx < Len(old.items)
                 THEN new = [old EXCEPT !.pc = "fetch", !.idx = old.idx + 1]
                 ELSE new.pc = "free"
            /\ (old.pc = "free" /\ new # old) =>
                 new.pc = "query" /\ new.items = <<>>]_vars

\* a query selected the one item without a row while the other item of the
\* folder has its row and no other task is running: the task that wrote that
\* row had selected both items and has ended, so the selected item is one
\* whose fetch failed before
C38_Witness ==
    \E t \in MetadataTasks :
        /\ mdTask[t].pc = "fetch"
        /\ mdTask[t].idx = 1
        /\ Len(mdTask[t].items) = 1
        /\ ~HasRow(mdTask[t].items[1])
        /\ mdTask[t].items[1] = MediaItemRow(1, CHOOSE f \in libraryFolders : f.id = 1,
                                             FileArrival)
        /\ \E y \in mediaItems :
             y.library_folder_id = mdTask[t].folder_id /\ HasRow(y)
        /\ \A u \in MetadataTasks \ {t} : mdTask[u].pc = "free"

\* ---------------------------------------------------------------------
\* scanner: what a scan does to the store
\* ---------------------------------------------------------------------

\* the file of the row is on disk
OnDisk(m) == \E f \in files : PathOf(f) = m.file_path

\* C39: every step of a scan leaves each existing MediaItem row as it is,
\* the rows whose file is gone included, and adds at most one row, for a
\* file path and with an id that no row had; it changes no folder and no
\* metadata row
C39_ScanOnlyInserts ==
    [][scanVars' # scanVars =>
         /\ mediaItems \subseteq mediaItems'
         /\ Cardinality(mediaItems' \ mediaItems) <= 1
         /\ \A m \in mediaItems' \ mediaItems : \A o \in mediaItems :
              o.file_path # m.file_path /\ o.id # m.id
         /\ libraryFolders' = libraryFolders
         /\ videoMetadata' = videoMetadata]_vars

\* the scan inserted two rows in the folder; the file of one of them was then
\* removed, and a later scan that saw only the other file has ended: the row
\* of the removed file is still there
C39_Witness ==
    /\ scanPc[MainScanner] = "done"
    /\ scanErr[MainScanner] = "none"
    /\ scanResult[MainScanner].total_files = 1
    /\ scanResult[MainScanner].existing_items = 1
    /\ scanResult[MainScanner].errors = 0
    /\ \E m, o \in mediaItems :
         /\ m # o
         /\ m.library_folder_id = scanFolder[MainScanner].id
         /\ o.library_folder_id = scanFolder[MainScanner].id
         /\ OnDisk(m)
         /\ ~OnDisk(o)

\* ---------------------------------------------------------------------
\* adapters: a lookup and the shared cache
\* ---------------------------------------------------------------------

\* the operations of an adapter that send one request
LookupOps == {"search", "details"}

\* TmdbProvider::request, lines 38-72, called by search_movie_internal and
\* get_movie_details_internal: the URL is built, get_with_rate_limit sends
\* the GET and the response is parsed; self.base.cache is neither read nor
\* written.  k is the cache key of the lookup, ok whether the response is a
\* success
ProviderLookup(op, k, ok) ==
    /\ outbound[k] < MaxCalls
    /\ call' = [fn |-> op, key |-> k]
    /\ outbound' = [outbound EXCEPT ![k] = @ + 1]
    /\ answered' = IF ok THEN answered \cup {k} ELSE answered
    /\ ret' = [fn |-> op, ok |-> ok, from |-> "network"]
    /\ UNCHANGED cacheVars

\* adapters built on a new shared cache
InitLookup == InitCache

NextLookup ==
    /\ \E op \in LookupOps, k \in CacheKeys, ok \in BOOLEAN : ProviderLookup(op, k, ok)
    /\ UNCHANGED <<rlVars, adVars, pipeVars, metaVars, orgVars, reqVars, raceVars>>

SpecLookup == InitLookup /\ [][NextLookup]_vars

\* C40: provider lookups go through the cache: after a successful outbound
\* response for a key the cache holds a live entry under that key, and a
\* lookup repeated for a key that was answered with success sends no new
\* outbound request
C40_LookupsUseCache ==
    /\ [](\A k \in answered : live(cache, k))
    /\ [][\A k \in answered : outbound'[k] = outbound[k]]_vars

====
